---- MODULE Spec2Model ----
(***************************************************************************)
(* clipboard-digest: the summary worker (src/src/summary_worker.py) and    *)
(* the clipboard logger (src/src/log_clipboard.py) as a state machine over *)
(* the two tables of the SQLite database, the polling loop of every        *)
(* summary-worker process and the thread pool each of them owns.           *)
(*                                                                         *)
(* Text is a sequence of one-character strings.  A score of fuzz.ratio is  *)
(* kept in tenths of a percent (947 is 94.7), which is the precision the   *)
(* worker stores in clipboard_groups.                                      *)
(***************************************************************************)
EXTENDS Integers, Sequences, FiniteSets, TLC

(* ------------------------------ bounds -------------------------------- *)
\* rows the logger inserts in one behaviour
MaxEntries == 3
\* rows the logger inserts when two worker processes share the database
MaxEntriesConc == 2
\* rows the logger inserts in the behaviours checked for liveness
MaxEntriesLive == 2
\* rows that leave the data window
MaxExpired == 1
\* kills of a worker process (each followed by its restart)
MaxCrashes == 1
\* entries the insights worker is given
MaxBatch == 4
\* the largest number of equally spaced entries handed to the estimator
MaxSpaced == 10
\* how many times the order of the equally spaced entries is changed
MaxSwaps == 1
\* the largest number of rows the insights worker fetches
MaxRows == 3
\* the longest text of the four-character alphabet handed to the similarity
MaxText == 3
\* the longest string value of the objects handed to the extractor
MaxValue == 2

(* ----------------------- configuration constants ---------------------- *)
\* the environment's SUMMARY_TRIGGER_LEN (200 when unset), set to the scale of
\* the texts of the model
SUMMARY_TRIGGER_LEN == 8
SIMILARITY_THRESHOLD == 90
\* the 48 hours of get_data_window_constraints, in seconds
WindowSeconds == 172800
\* REFRESH_INTERVAL of the clipboard monitor, in seconds
REFRESH_INTERVAL == 2
\* the 1000 rows of get_data_window_constraints
max_entries == 1000
\* DEFAULT_G_SECONDS of the insights worker, in seconds
DEFAULT_G_SECONDS == 1200
\* TIME_PROXIMITY_NORMALIZATION_FACTOR of the insights worker (1.2), in tenths
TIME_PROXIMITY_NORMALIZATION_FACTOR == 12

(* --------------------------- stored values ---------------------------- *)
\* SQL NULL in a TEXT column
NULL == "<NULL>"
\* SQL NULL in clipboard.group_id (AUTOINCREMENT ids start at 1)
NoGroup == 0
PENDING == "summarizing..."
FAIL == "FAIL"
\* str(e) of the AttributeError json.loads(...).get raises on a JSON array
ListError == "'list' object has no attribute 'get'"

Procs == {1, 2}

Rep(c, n) == [i \in 1..n |-> c]
A8 == Rep("a", 8)
A9 == Rep("a", 9)
A10 == Rep("a", 10)
\* what the clipboard can hold: A8 is not longer than the trigger length,
\* ratio(A9, A10) = 94.7, ratio(A8, A9) = 94.1, ratio(A8, A10) = 88.9
Texts == {A8, A9, A10}

\* a text and three shortened copies of it: each copy has ratio 92.3 with Long,
\* ratio(CutC, CutD) = 91.7, ratio(CutB, CutC) = ratio(CutB, CutD) = 83.3
Long == Rep("a", 10) \o Rep("b", 2) \o Rep("c", 2)
CutB == Rep("a", 10) \o Rep("b", 2)
CutC == Rep("a", 10) \o Rep("c", 2)
CutD == Rep("a", 9) \o Rep("b", 1) \o Rep("c", 2)

\* what one chat completion can be
Completions == {"json", "fenced_array", "empty", "error"}

VARIABLES
    clipboard,          \* table clipboard: row id |-> row, ids 1..Len
    clipboard_groups,   \* table clipboard_groups: a set of rows
    clock,              \* the wall clock, in seconds
    pc,                 \* where each worker process is in poll_and_summarize
    row,                \* the row each process fetched in this cycle
    client,             \* whether the process's OpenAI client was built
    queue,              \* the executor's queue of submitted calls
    running,            \* the call the executor's thread is in, 0 when idle
    submits,            \* how often each row was given to executor.submit
    crashes,            \* kills so far
    feed,               \* what the user may copy: the texts allowed for each row
    last,               \* the operation that led to this state
    batch               \* the insights worker: its input, threshold and blocks

vars == <<clipboard, clipboard_groups, clock, pc, row, client, queue, running,
          submits, crashes, feed, last, batch>>

(* ------------------------------ helpers ------------------------------- *)
Max(a, b) == IF a >= b THEN a ELSE b

Ids == 1..Len(clipboard)

\* Python's round() of the quotient n / d (ties go to the even integer)
RoundDiv(n, d) ==
    LET q == n \div d
        r == n % d
    IN  IF 2 * r < d THEN q
        ELSE IF 2 * r > d THEN q + 1
        ELSE IF q % 2 = 0 THEN q ELSE q + 1

Lower(c) == IF c = "A" THEN "a" ELSE IF c = "B" THEN "b" ELSE c

RECURSIVE Strip(_)
Strip(t) ==
    IF t = <<>> THEN t
    ELSE IF Head(t) = " " THEN Strip(Tail(t))
    ELSE IF t[Len(t)] = " " THEN Strip(SubSeq(t, 1, Len(t) - 1))
    ELSE t

default_process(text) == Strip([i \in 1..Len(text) |-> Lower(text[i])])

RECURSIVE LCS(_, _)
LCS(a, b) ==
    IF a = <<>> \/ b = <<>> THEN 0
    ELSE IF Head(a) = Head(b) THEN 1 + LCS(Tail(a), Tail(b))
    ELSE Max(LCS(Tail(a), b), LCS(a, Tail(b)))

\* fuzz.ratio: the normalized Indel similarity, 100 * 2 * LCS / (la + lb)
Total(a, b) == Len(default_process(a)) + Len(default_process(b))
\* mutant: the processor is applied to the first text only
MatchedFirstProcessed(a, b) == 2 * LCS(default_process(a), b)
Matched(a, b) == 2 * LCS(default_process(a), default_process(b))

\* score >= min_similarity, decided exactly
ScoreAtLeast(a, b, min_similarity) ==
    IF Total(a, b) = 0 THEN min_similarity <= 100
    ELSE 100 * Matched(a, b) >= min_similarity * Total(a, b)

\* round(float(score), 1), in tenths
calculate_similarity(content1, content2) ==
    IF Total(content1, content2) = 0 THEN 1000
    ELSE RoundDiv(1000 * Matched(content1, content2), Total(content1, content2))

\* cutoff_time of get_data_window_constraints
CutoffTime == clock - WindowSeconds

InWindow(cb, id) == cb[id].timestamp >= CutoffTime

Entry(text) ==
    [timestamp |-> clock, content |-> text, summary |-> NULL, type |-> NULL,
     group_id |-> NoGroup]

NoRow == [id |-> 0, content |-> <<>>, group_id |-> NoGroup]

Op(name, p, id, other) ==
    [op |-> name, proc |-> p, id |-> id, other |-> other, completion |-> ""]

\* log_to_db, Elapse, WorkerStart and Crash are not recorded
NoOp == Op("none", 0, 0, 0)

\* no insights worker is running
NoBatch == [pc |-> "off"]

(* ------------------------------- Init --------------------------------- *)
InitDb ==
    /\ clipboard = <<>>
    /\ clipboard_groups = {}
    /\ clock = 0
    /\ row = [p \in Procs |-> NoRow]
    /\ queue = [p \in Procs |-> <<>>]
    /\ running = [p \in Procs |-> 0]
    /\ submits = <<>>
    /\ crashes = 0
    /\ last = NoOp

\* one summary worker is launched
Init ==
    /\ InitDb
    /\ batch = NoBatch
    /\ feed = [id \in 1..MaxEntries |-> Texts]
    /\ pc = [p \in Procs |-> IF p = 1 THEN "start" ELSE "off"]
    /\ \E built \in BOOLEAN : client = [p \in Procs |-> built /\ p = 1]

\* two summary workers are launched on the same database
InitConc ==
    /\ InitDb
    /\ batch = NoBatch
    /\ feed = [id \in 1..MaxEntriesConc |-> Texts]
    /\ pc = [p \in Procs |-> "start"]
    /\ \E built \in BOOLEAN : client = [p \in Procs |-> built]

\* one summary worker, fewer rows
InitLive ==
    /\ InitDb
    /\ batch = NoBatch
    /\ feed = [id \in 1..MaxEntriesLive |-> Texts]
    /\ pc = [p \in Procs |-> IF p = 1 THEN "start" ELSE "off"]
    /\ \E built \in BOOLEAN : client = [p \in Procs |-> built /\ p = 1]

\* one summary worker with a client; the user copies a text, then shortened
\* copies of it
InitGroup ==
    /\ InitDb
    /\ batch = NoBatch
    /\ feed = <<{Long}, {CutB}, {CutC}, {CutD}>>
    /\ pc = [p \in Procs |-> IF p = 1 THEN "start" ELSE "off"]
    /\ client = [p \in Procs |-> p = 1]

(* ---------------------------- the logger ------------------------------ *)
\* check_clipboard, log_to_db: INSERT INTO clipboard (timestamp, content)
\* VALUES (now, text), then time.sleep(refresh_interval)
log_to_db(text) ==
    /\ Len(clipboard) < Len(feed)
    /\ text \in feed[Len(clipboard) + 1]
    /\ clipboard' = Append(clipboard, Entry(text))
    /\ clock' = clock + REFRESH_INTERVAL
    /\ submits' = Append(submits, 0)
    /\ last' = NoOp
    /\ UNCHANGED <<batch, feed, clipboard_groups, pc, row, client, queue, running, crashes>>

\* time passes until the oldest row of the data window has left it
Expired == {id \in Ids : ~InWindow(clipboard, id)}

Elapse ==
    /\ Cardinality(Expired) < MaxExpired
    /\ Expired # Ids
    /\ LET oldest == CHOOSE id \in Ids \ Expired : \A other \in Ids \ Expired :
                         clipboard[id].timestamp <= clipboard[other].timestamp
       IN  clock' = clipboard[oldest].timestamp + WindowSeconds + 1
    /\ last' = NoOp
    /\ UNCHANGED <<batch, feed, clipboard, clipboard_groups, pc, row, client, queue, running,
                   submits, crashes>>

(* ------------------------- startup recovery --------------------------- *)
\* mutant: only the entries without a group are reset
RecoverRowUngrouped(r) ==
    IF r.summary = PENDING /\ r.group_id = NoGroup THEN [r EXCEPT !.summary = NULL]
    ELSE r

\* UPDATE clipboard SET summary = NULL WHERE summary = 'summarizing...'
RecoverRow(r) == IF r.summary = PENDING THEN [r EXCEPT !.summary = NULL] ELSE r

Recover(p) ==
    /\ pc[p] = "start"
    /\ clipboard' = [id \in Ids |-> RecoverRow(clipboard[id])]
    /\ pc' = [pc EXCEPT ![p] = "poll"]
    /\ last' = Op("Recover", p, 0,
                  Cardinality({id \in Ids : clipboard[id].summary = PENDING}))
    /\ UNCHANGED <<batch, feed, clipboard_groups, clock, row, client, queue, running, submits,
                   crashes>>

(* ------------------------ check_parent_summary ------------------------ *)
\* SELECT c1.id, c1.group_id ... WHERE summary = 'summarizing...' AND group_id IS NOT NULL
Summarizing(cb, id) == cb[id].summary = PENDING /\ cb[id].group_id # NoGroup

\* SELECT c2.summary, c2.type WHERE c2.id = ? AND summary IS NOT NULL
\* AND summary != 'summarizing...' finds a row
ParentReady(cb, group_id) ==
    /\ group_id \in 1..Len(cb)
    /\ cb[group_id].summary # NULL
    /\ cb[group_id].summary # PENDING

\* one turn of the loop over summarizing_entries
SweepEntry(cb, entry_id) ==
    LET group_id == cb[entry_id].group_id
    IN  IF ParentReady(cb, group_id)
        THEN [cb EXCEPT ![entry_id].summary = cb[group_id].summary,
                        ![entry_id].type = cb[group_id].type]
        ELSE cb

\* the loop, over the rows the first SELECT returned, in rowid order
RECURSIVE SweepFrom(_, _, _)
SweepFrom(cb, listed, id) ==
    IF id > Len(cb) THEN cb
    ELSE SweepFrom(IF id \in listed THEN SweepEntry(cb, id) ELSE cb, listed, id + 1)

check_parent_summary(cb) ==
    SweepFrom(cb, {id \in 1..Len(cb) : Summarizing(cb, id)}, 1)

(* --------------------- the row a poll cycle fetches ------------------- *)
\* WHERE summary IS NULL AND LENGTH(content) > ? AND timestamp >= ?
Selectable(cb, id) ==
    /\ cb[id].summary = NULL
    /\ Len(cb[id].content) > SUMMARY_TRIGGER_LEN
    /\ InWindow(cb, id)

\* mutant: ORDER BY id DESC
FetchLast(cb) ==
    {id \in 1..Len(cb) :
        /\ Selectable(cb, id)
        /\ \A other \in 1..Len(cb) : Selectable(cb, other) => id >= other}

\* ORDER BY id ASC LIMIT ?, then fetchone(): the ids of the possible rows
FetchOne(cb) ==
    {id \in 1..Len(cb) :
        /\ Selectable(cb, id)
        /\ \A other \in 1..Len(cb) : Selectable(cb, other) => id <= other}

\* the head of the loop body: check_parent_summary(conn), then the SELECT of
\* the entries needing summaries; without a row the loop sleeps and continues
Poll(p) ==
    /\ pc[p] = "poll"
    /\ clipboard' = check_parent_summary(clipboard)
    /\ IF FetchOne(clipboard') = {}
       THEN /\ pc' = pc
            /\ row' = [row EXCEPT ![p] = NoRow]
       ELSE \E id \in FetchOne(clipboard') :
            /\ pc' = [pc EXCEPT ![p] = "decide"]
            /\ row' = [row EXCEPT ![p] =
                         [id |-> id, content |-> clipboard[id].content,
                          group_id |-> clipboard[id].group_id]]
    /\ last' = Op("Poll", p, row'[p].id,
                  Cardinality({id \in Ids : clipboard'[id] # clipboard[id]}))
    /\ UNCHANGED <<batch, feed, clipboard_groups, clock, client, queue, running, submits, crashes>>

(* ----------------------- check_group_for_summary ---------------------- *)
\* c2.group_id = ? AND c2.id != ?
Member(cb, id, clip_id, group_id) == id # clip_id /\ cb[id].group_id = group_id

\* what the function can return, {} for None: a (summary, type) of a member
\* whose summary is neither NULL nor 'summarizing...' (LIMIT 1 takes any),
\* else ("summarizing...", "") when a member is being summarized
check_group_for_summary(cb, clip_id, group_id) ==
    LET done == {id \in 1..Len(cb) :
                    /\ Member(cb, id, clip_id, group_id)
                    /\ cb[id].summary # NULL
                    /\ cb[id].summary # PENDING}
        busy == {id \in 1..Len(cb) :
                    /\ Member(cb, id, clip_id, group_id)
                    /\ cb[id].summary = PENDING}
    IN  IF group_id = NoGroup THEN {}
        ELSE IF done # {} THEN {<<cb[id].summary, cb[id].type>> : id \in done}
        ELSE IF busy # {} THEN {<<PENDING, "">>}
        ELSE {}

(* ------------------------ find_similar_entries ------------------------ *)
\* min_length = max(1, round(len(content) * min_similarity / 100))
MinLength(content, min_similarity) ==
    Max(1, RoundDiv(Len(content) * min_similarity, 100))

\* the rows of the query: LENGTH(content) >= ? AND timestamp >= ? AND id != ?
Candidate(cb, id, content, min_similarity, clip_id) ==
    /\ Len(cb[id].content) >= MinLength(content, min_similarity)
    /\ InWindow(cb, id)
    /\ id # clip_id

\* the candidates the loop does not skip and whose score reaches the threshold
Similar(cb, id, content, min_similarity, clip_id) ==
    /\ Candidate(cb, id, content, min_similarity, clip_id)
    /\ default_process(cb[id].content) # <<>>
    /\ ScoreAtLeast(content, cb[id].content, min_similarity)

\* the ids the function can return, {} for None: the first similar row in
\* ORDER BY timestamp DESC LIMIT ? (rows of one timestamp come in any order)
find_similar_entries(cb, content, min_similarity, clip_id, limit) ==
    {id \in 1..Len(cb) :
        /\ Similar(cb, id, content, min_similarity, clip_id)
        /\ \A other \in 1..Len(cb) :
              Similar(cb, other, content, min_similarity, clip_id)
                  => cb[other].timestamp <= cb[id].timestamp
        /\ Cardinality({other \in 1..Len(cb) :
              /\ Candidate(cb, other, content, min_similarity, clip_id)
              /\ cb[other].timestamp > cb[id].timestamp}) < limit}

(* ----------------------- update_entry_with_group ---------------------- *)
\* mutant: WHERE id = ? OR id = <the group>
UpdateEntryAndRoot(cb, entry_id, group_id, summary, entry_type) ==
    [id \in 1..Len(cb) |->
        IF id \in {entry_id, group_id}
        THEN [cb[id] EXCEPT !.summary = summary, !.type = entry_type,
                            !.group_id = group_id]
        ELSE cb[id]]

\* UPDATE clipboard SET summary = ?, type = ?, group_id = ? WHERE id = ?
UpdateEntry(cb, entry_id, group_id, summary, entry_type) ==
    [cb EXCEPT ![entry_id].summary = summary,
               ![entry_id].type = entry_type,
               ![entry_id].group_id = group_id]

\* mutant: INSERT OR REPLACE
InsertOrReplace(edges, edge) ==
    {e \in edges : ~(e.from_id = edge.from_id /\ e.to_id = edge.to_id)} \cup {edge}

\* INSERT OR IGNORE INTO clipboard_groups, PRIMARY KEY (from_id, to_id)
InsertOrIgnore(edges, edge) ==
    IF \E e \in edges : e.from_id = edge.from_id /\ e.to_id = edge.to_id
    THEN edges
    ELSE edges \cup {edge}

\* similar["summary"] or "", similar["type"] or ""
OrEmpty(value) == IF value = NULL THEN "" ELSE value

\* mutant: the match's own id is always the group
RootGroupIdNoFlatten(similar_group_id, similar_id) == similar_id

\* root_group_id = similar_group_id or similar_id
RootGroupId(similar_group_id, similar_id) ==
    IF similar_group_id # NoGroup THEN similar_group_id ELSE similar_id

(* --------------------- the decision of a poll cycle ------------------- *)
GroupResult(p) == check_group_for_summary(clipboard, row[p].id, row[p].group_id)

SimilarResult(p) ==
    find_similar_entries(clipboard, row[p].content, SIMILARITY_THRESHOLD, row[p].id,
                         max_entries)

\* the entry has a group and the group has a summary to reuse
Inherit(p) ==
    /\ pc[p] = "decide"
    /\ \E result \in GroupResult(p) :
          clipboard' = UpdateEntry(clipboard, row[p].id, row[p].group_id,
                                   result[1], result[2])
    /\ pc' = [pc EXCEPT ![p] = "poll"]
    /\ last' = Op("Inherit", p, row[p].id, 0)
    /\ UNCHANGED <<batch, feed, clipboard_groups, clock, row, client, queue, running, submits,
                   crashes>>

\* Strategy 1: a similar entry is found
Attach(p) ==
    /\ pc[p] = "decide"
    /\ GroupResult(p) = {}
    /\ \E similar_id \in SimilarResult(p) :
          LET similar == clipboard[similar_id]
              root_group_id == RootGroupId(similar.group_id, similar_id)
              score_value == calculate_similarity(row[p].content, similar.content)
          IN  /\ clipboard' = UpdateEntry(clipboard, row[p].id, root_group_id,
                                          OrEmpty(similar.summary),
                                          OrEmpty(similar.type))
              /\ clipboard_groups' = InsertOrIgnore(clipboard_groups,
                    [from_id |-> row[p].id, to_id |-> similar_id,
                     similarity |-> score_value, group_id |-> root_group_id])
              /\ last' = Op("Attach", p, row[p].id, similar_id)
    /\ pc' = [pc EXCEPT ![p] = "poll"]
    /\ UNCHANGED <<batch, feed, clock, row, client, queue, running, submits, crashes>>

\* UPDATE clipboard SET summary = 'summarizing...' WHERE id = ?
\* variant: the entry is submitted without being marked
SubmitUnmarked(cb, clip_id) == cb
Claim(cb, clip_id) == [cb EXCEPT ![clip_id].summary = PENDING]

\* Strategy 3: executor.submit(summarize_and_store, clip_id, content)
Dispatch(p) ==
    /\ pc[p] = "decide"
    /\ GroupResult(p) = {}
    /\ SimilarResult(p) = {}
    /\ clipboard' = Claim(clipboard, row[p].id)
    /\ queue' = [queue EXCEPT ![p] = Append(@, row[p].id)]
    /\ submits' = [submits EXCEPT ![row[p].id] = @ + 1]
    /\ pc' = [pc EXCEPT ![p] = "poll"]
    /\ last' = Op("Dispatch", p, row[p].id, 0)
    /\ UNCHANGED <<batch, feed, clipboard_groups, clock, row, client, running, crashes>>

(* ------------------------ summarize_and_store ------------------------- *)
\* a thread of the pool takes the next submitted call
WorkerStart(p) ==
    /\ pc[p] # "off"
    /\ running[p] = 0
    /\ queue[p] # <<>>
    /\ running' = [running EXCEPT ![p] = Head(queue[p])]
    /\ queue' = [queue EXCEPT ![p] = Tail(@)]
    /\ last' = NoOp
    /\ UNCHANGED <<batch, feed, clipboard, clipboard_groups, clock, pc, row, client, submits,
                   crashes>>

\* the text of a summary and of a type the service writes for a clip
SummaryText(clip_id) == "summary " \o ToString(clip_id)
TypeText(clip_id) == "type " \o ToString(clip_id)

\* extract_json(raw, "type").strip() or "FAIL", and the same for "content";
\* both are str(e) when extract_json raises
TypeVal(completion, clip_id) ==
    CASE completion = "json" -> TypeText(clip_id)
      [] completion = "fenced_array" -> ListError
      [] OTHER -> FAIL

ContentVal(completion, clip_id) ==
    CASE completion = "json" -> SummaryText(clip_id)
      [] completion = "fenced_array" -> ListError
      [] OTHER -> FAIL

\* UPDATE clipboard SET summary = ?, type = ? WHERE id = ?
StoreSummary(cb, clip_id, content_val, type_val) ==
    [cb EXCEPT ![clip_id].summary = content_val, ![clip_id].type = type_val]

\* what the call leaves in the table; nothing is written without a client
summarize_and_store(cb, has_client, clip_id, completion) ==
    IF ~has_client THEN cb
    ELSE StoreSummary(cb, clip_id, ContentVal(completion, clip_id),
                      TypeVal(completion, clip_id))

WorkerFinish(p) ==
    /\ running[p] # 0
    /\ \E completion \in (IF client[p] THEN Completions ELSE {"no client"}) :
          /\ clipboard' = summarize_and_store(clipboard, client[p], running[p],
                                              completion)
          /\ last' = [Op("WorkerFinish", p, running[p], 0)
                         EXCEPT !.completion = completion]
    /\ running' = [running EXCEPT ![p] = 0]
    /\ UNCHANGED <<batch, feed, clipboard_groups, clock, pc, row, client, queue, submits, crashes>>

(* -------------------------- kill and restart -------------------------- *)
\* the process is killed (its submitted calls die with it) and started again
Crash(p) ==
    /\ pc[p] \notin {"off", "start"}
    /\ crashes < MaxCrashes
    /\ crashes' = crashes + 1
    /\ pc' = [pc EXCEPT ![p] = "start"]
    /\ row' = [row EXCEPT ![p] = NoRow]
    /\ queue' = [queue EXCEPT ![p] = <<>>]
    /\ running' = [running EXCEPT ![p] = 0]
    /\ last' = NoOp
    /\ UNCHANGED <<batch, feed, clipboard, clipboard_groups, clock, client, submits>>

(* ------------------- the batch path: decoding rows -------------------- *)
\* re.match(r"FAIL-\d+", value), over the values a column of the model holds
FailNumbered(value) == value \in {"FAIL-" \o ToString(n) : n \in 0..9}

\* mutant: the pending marker is kept as a summary
clean_summary_keeps_pending(summary) ==
    IF summary \in {FAIL, NULL, "None", "null"} \/ FailNumbered(summary)
    THEN NULL ELSE summary

\* process_db_entries: clean_summary
clean_summary(summary) ==
    IF summary \in {PENDING, FAIL, NULL, "None", "null"} \/ FailNumbered(summary)
    THEN NULL ELSE summary

\* process_db_entries: clean_type
clean_type(entry_type) ==
    IF entry_type \in {FAIL, "None", "null", NULL} \/ FailNumbered(entry_type)
    THEN NULL ELSE entry_type

\* group_processed_entries: if entry_data["type"] and entry_data["summary"]
Typed(r) ==
    /\ clean_type(r.type) \notin {NULL, ""}
    /\ clean_summary(r.summary) \notin {NULL, ""}

(* -------------- the insights worker: threshold and blocks ------------- *)
\* local times of the entries, in seconds
Times == {0, 10, 20, 1000}
\* dt_local of a processed entry: None (the timestamp did not parse) or a time
LocalTimes == {<<>>} \cup {<<t>> : t \in Times}
\* thresholds handed to the block former, in tenths of a second
Thresholds == {0, 100, 600}
\* normalization factors, in tenths
Factors == {10, TIME_PROXIMITY_NORMALIZATION_FACTOR}

\* the processed entries of rows whose local times are dts
Processed(dts) == [i \in 1..Len(dts) |-> [db_id |-> i, dt_local |-> dts[i]]]

RECURSIVE Insert(_, _)
Insert(x, sorted) ==
    IF sorted = <<>> THEN <<x>>
    ELSE IF x < Head(sorted) THEN <<x>> \o sorted
    ELSE <<Head(sorted)>> \o Insert(x, Tail(sorted))

\* sorted(): what it returns for a list of numbers
RECURSIVE Sorted(_)
Sorted(xs) == IF xs = <<>> THEN <<>> ELSE Insert(Head(xs), Sorted(Tail(xs)))

HasTime(e) == e.dt_local # <<>>

\* mutant: the entries with a local time are taken in the order given
entries_as_given(all_processed_entries) ==
    LET timed == SelectSeq(all_processed_entries, HasTime)
    IN  [i \in 1..Len(timed) |-> timed[i].dt_local[1]]

\* sorted([e for e in all_processed_entries if e.get("dt_local")]): the times
sorted_entries(all_processed_entries) ==
    LET timed == SelectSeq(all_processed_entries, HasTime)
    IN  Sorted([i \in 1..Len(timed) |-> timed[i].dt_local[1]])

\* the gaps between consecutive sorted entries that are > 0
gaps_in_seconds(all_processed_entries) ==
    LET sorted == sorted_entries(all_processed_entries)
        gaps == [i \in 1..(Len(sorted) - 1) |-> sorted[i + 1] - sorted[i]]
    IN  SelectSeq(gaps, LAMBDA gap : gap > 0)

\* np.percentile(gaps, 90), linear interpolation, in tenths
Percentile90(gaps) ==
    LET sorted == Sorted(gaps)
        position == 9 * (Len(sorted) - 1)
        k == position \div 10
        r == position % 10
    IN  IF r = 0 THEN 10 * sorted[k + 1]
        ELSE 10 * sorted[k + 1] + r * (sorted[k + 2] - sorted[k + 1])

\* the threshold, in tenths of a second
calculate_adaptive_g_threshold(all_processed_entries, default_g) ==
    LET gaps == gaps_in_seconds(all_processed_entries)
    IN  IF gaps # <<>>
        THEN IF Percentile90(gaps) > 0 THEN Percentile90(gaps) ELSE 10 * default_g
        ELSE 10 * default_g

\* gap_seconds: float("inf") unless both entries have a local time
gap_seconds(l_entry_data, r_entry_data) ==
    IF HasTime(l_entry_data) /\ HasTime(r_entry_data)
    THEN [finite |-> TRUE,
          seconds |-> r_entry_data.dt_local[1] - l_entry_data.dt_local[1]]
    ELSE [finite |-> FALSE, seconds |-> 0]

\* variant: the gap that was not computed does not count as positive
PositiveComputed(gap) == gap.finite /\ gap.seconds > 0

\* gap_seconds > 0
Positive(gap) == ~gap.finite \/ gap.seconds > 0

\* mutant: a pair without a local time counts as close
time_score_missing_close(l_entry_data, r_entry_data, g_adaptive_threshold, normalization_factor) ==
    LET gap == gap_seconds(l_entry_data, r_entry_data)
        scale == normalization_factor * g_adaptive_threshold
    IN  IF ~gap.finite THEN <<1, 1>>
        ELSE IF g_adaptive_threshold > 0
             THEN <<Max(0, scale - 100 * gap.seconds), scale>>
        ELSE IF gap.seconds <= 0 THEN <<1, 1>>
        ELSE <<0, 1>>

\* time_score as the fraction <<numerator, denominator>>; the threshold is in
\* tenths of a second and the factor in tenths
time_score(l_entry_data, r_entry_data, g_adaptive_threshold, normalization_factor) ==
    LET gap == gap_seconds(l_entry_data, r_entry_data)
        scale == normalization_factor * g_adaptive_threshold
    IN  IF ~gap.finite THEN <<0, 1>>
        ELSE IF g_adaptive_threshold > 0
             THEN <<Max(0, scale - 100 * gap.seconds), scale>>
        ELSE IF gap.seconds <= 0 THEN <<1, 1>>
        ELSE <<0, 1>>

\* mutant: a gap equal to factor * threshold does not split
StartsBlockStrict(l_entry_data, r_entry_data, g_adaptive_threshold, normalization_factor) ==
    LET gap == gap_seconds(l_entry_data, r_entry_data)
    IN  \/ ~gap.finite
        \/ /\ gap.seconds > 0
           /\ IF g_adaptive_threshold > 0
              THEN 100 * gap.seconds > normalization_factor * g_adaptive_threshold
              ELSE TRUE

\* if time_score == 0.0 and gap_seconds > 0
StartsBlock(l_entry_data, r_entry_data, g_adaptive_threshold, normalization_factor) ==
    /\ time_score(l_entry_data, r_entry_data, g_adaptive_threshold,
                  normalization_factor)[1] = 0
    /\ Positive(gap_seconds(l_entry_data, r_entry_data))

RECURSIVE BlocksFrom(_, _, _, _, _, _)
\* mutant: the block that is open when the loop ends is not appended
RECURSIVE BlocksFromNoFlush(_, _, _, _, _, _)
BlocksFromNoFlush(entries, i, groups, current_block, g, factor) ==
    IF i > Len(entries) THEN groups
    ELSE IF StartsBlock(current_block[Len(current_block)], entries[i], g, factor)
         THEN BlocksFromNoFlush(entries, i + 1, Append(groups, current_block),
                                <<entries[i]>>, g, factor)
         ELSE BlocksFromNoFlush(entries, i + 1, groups,
                                Append(current_block, entries[i]), g, factor)

\* the loop from entry i on
BlocksFrom(entries, i, groups, current_block, g, factor) ==
    IF i > Len(entries)
    THEN IF current_block # <<>> THEN Append(groups, current_block) ELSE groups
    ELSE IF StartsBlock(current_block[Len(current_block)], entries[i], g, factor)
         THEN BlocksFrom(entries, i + 1, Append(groups, current_block),
                         <<entries[i]>>, g, factor)
         ELSE BlocksFrom(entries, i + 1, groups, Append(current_block, entries[i]),
                         g, factor)

form_dynamic_untyped_blocks(individual_untyped_entries, g_adaptive_threshold, normalization_factor) ==
    IF individual_untyped_entries = <<>> THEN <<>>
    ELSE BlocksFrom(individual_untyped_entries, 2, <<>>,
                    <<individual_untyped_entries[1]>>, g_adaptive_threshold,
                    normalization_factor)

\* the insights worker is given its entries, a threshold and a factor
InitInsights ==
    /\ InitDb
    /\ feed = <<>>
    /\ pc = [p \in Procs |-> "off"]
    /\ client = [p \in Procs |-> FALSE]
    /\ \E n \in 0..MaxBatch : \E dts \in [1..n -> LocalTimes] :
       \E g \in Thresholds : \E factor \in Factors :
          batch = [pc |-> "processed", entries |-> Processed(dts),
                   default_g |-> DEFAULT_G_SECONDS, g_threshold |-> g,
                   normalization_factor |-> factor, blocks |-> <<>>]

\* g_threshold = calculate_adaptive_g_threshold(all_processed, DEFAULT_G_SECONDS)
Estimate ==
    /\ batch.pc = "processed"
    /\ batch' = [batch EXCEPT
                   !.pc = "estimated",
                   !.g_threshold =
                       calculate_adaptive_g_threshold(batch.entries, batch.default_g)]
    /\ UNCHANGED <<clipboard, clipboard_groups, clock, pc, row, client, queue, running,
                   submits, crashes, feed, last>>

\* dynamic_blocks = form_dynamic_untyped_blocks(entries, threshold, factor),
\* with the threshold of the estimator or the one given
FormBlocks ==
    /\ batch.pc \in {"processed", "estimated"}
    /\ batch' = [batch EXCEPT
                   !.pc = IF batch.pc = "processed" THEN "given" ELSE "blocked",
                   !.blocks =
                       form_dynamic_untyped_blocks(batch.entries, batch.g_threshold,
                                                   batch.normalization_factor)]
    /\ UNCHANGED <<clipboard, clipboard_groups, clock, pc, row, client, queue, running,
                   submits, crashes, feed, last>>

NextInsights == Estimate \/ FormBlocks

SpecInsights == InitInsights /\ [][NextInsights]_vars

(* ------------- the estimator on equally spaced entries ---------------- *)
\* the gap between consecutive entries, in seconds
Spacings == {1, 7, 100}

\* count entries, the i-th at (i - 1) * spacing seconds
Spaced(count, spacing) ==
    [i \in 1..count |-> [db_id |-> i, dt_local |-> <<(i - 1) * spacing>>]]

\* the same entries with those at positions i and j exchanged
Exchanged(entries, i, j) ==
    [k \in 1..Len(entries) |->
        IF k = i THEN entries[j] ELSE IF k = j THEN entries[i] ELSE entries[k]]

\* the estimator is given equally spaced entries, oldest or newest first
InitSpaced ==
    /\ InitDb
    /\ feed = <<>>
    /\ pc = [p \in Procs |-> "off"]
    /\ client = [p \in Procs |-> FALSE]
    /\ \E count \in 2..MaxSpaced : \E spacing \in Spacings : \E newest_first \in BOOLEAN :
          batch = [pc |-> "processed",
                   entries |-> IF newest_first
                               THEN [i \in 1..count |->
                                        Spaced(count, spacing)[count + 1 - i]]
                               ELSE Spaced(count, spacing),
                   default_g |-> DEFAULT_G_SECONDS, g_threshold |-> 0,
                   normalization_factor |-> TIME_PROXIMITY_NORMALIZATION_FACTOR,
                   blocks |-> <<>>, spacing |-> spacing, swaps |-> 0]

\* the rows reach the estimator in another order
Reorder ==
    /\ batch.pc = "processed"
    /\ batch.swaps < MaxSwaps
    /\ \E i \in 1..Len(batch.entries) : \E j \in (i + 1)..Len(batch.entries) :
          batch' = [batch EXCEPT !.entries = Exchanged(batch.entries, i, j),
                                 !.swaps = batch.swaps + 1]
    /\ UNCHANGED <<clipboard, clipboard_groups, clock, pc, row, client, queue, running,
                   submits, crashes, feed, last>>

NextSpaced == Reorder \/ Estimate

SpecSpaced == InitSpaced /\ [][NextSpaced]_vars

(* ------------ the insights worker: from rows to sequential ids -------- *)
\* the timestamp column: the ISO text of a time in seconds; texts of one format
\* compare as their times do
Stamps == {0, 5, 10}
\* a timestamp that datetime.fromisoformat rejects
Unparsed == 5
\* the (summary, type) columns of a row
Columns == {<<NULL, NULL>>, <<PENDING, "t1">>, <<FAIL, "t1">>, <<"s1", FAIL>>,
            <<"FAIL-1", "t1">>, <<"s1", "t1">>, <<"s2", "t1">>, <<"s1", "t2">>}

\* the row with this id, timestamp and (summary, type)
RawRow(id, stamp, columns) ==
    [id |-> id, timestamp |-> stamp, summary |-> columns[1], type |-> columns[2]]

\* ORDER BY timestamp ASC: the row goes behind the rows that are not later
RECURSIVE InsertRow(_, _)
InsertRow(r, rows) ==
    IF rows = <<>> THEN <<r>>
    ELSE IF r.timestamp < rows[Len(rows)].timestamp
         THEN Append(InsertRow(r, SubSeq(rows, 1, Len(rows) - 1)), rows[Len(rows)])
         ELSE Append(rows, r)

\* fetch_entries_from_db: the rows of the table in timestamp order
RECURSIVE fetch_entries_from_db(_)
fetch_entries_from_db(table) ==
    IF table = <<>> THEN <<>>
    ELSE InsertRow(table[Len(table)],
                   fetch_entries_from_db(SubSeq(table, 1, Len(table) - 1)))

\* process_db_entries: one processed entry for each row, in the rows' order
process_db_entries(raw_db_entries) ==
    [i \in 1..Len(raw_db_entries) |->
        [db_id |-> raw_db_entries[i].id,
         timestamp_iso |-> raw_db_entries[i].timestamp,
         dt_local |-> IF raw_db_entries[i].timestamp = Unparsed THEN <<>>
                      ELSE <<raw_db_entries[i].timestamp>>,
         type |-> clean_type(raw_db_entries[i].type),
         summary |-> clean_summary(raw_db_entries[i].summary)]]

\* if entry_data["type"] and entry_data["summary"]
typed_entry(entry_data) ==
    /\ entry_data.type \notin {NULL, ""}
    /\ entry_data.summary \notin {NULL, ""}

\* list.sort(key=lambda x: x["timestamp_iso"]): one step of the stable sort
RECURSIVE InsertEntry(_, _)
InsertEntry(e, entries) ==
    IF entries = <<>> THEN <<e>>
    ELSE IF e.timestamp_iso < entries[Len(entries)].timestamp_iso
         THEN Append(InsertEntry(e, SubSeq(entries, 1, Len(entries) - 1)),
                     entries[Len(entries)])
         ELSE Append(entries, e)

RECURSIVE sort_by_timestamp_iso(_)
sort_by_timestamp_iso(entries) ==
    IF entries = <<>> THEN <<>>
    ELSE InsertEntry(entries[Len(entries)],
                     sort_by_timestamp_iso(SubSeq(entries, 1, Len(entries) - 1)))

\* the keys of typed_combined_groups, in the order they were first inserted
RECURSIVE group_keys(_)
group_keys(entries) ==
    IF entries = <<>> THEN <<>>
    ELSE LET earlier == group_keys(SubSeq(entries, 1, Len(entries) - 1))
             e == entries[Len(entries)]
             key == <<e.type, e.summary>>
         IN  IF typed_entry(e) /\ \A i \in 1..Len(earlier) : earlier[i] # key
             THEN Append(earlier, key) ELSE earlier

\* mutant: the groups are keyed by the type alone
members_by_type(processed_entries_list, key) ==
    SelectSeq(processed_entries_list,
              LAMBDA e : typed_entry(e) /\ e.type = key[1])

\* typed_combined_groups[key]: the typed entries with this (type, summary)
members(processed_entries_list, key) ==
    SelectSeq(processed_entries_list,
              LAMBDA e : typed_entry(e) /\ <<e.type, e.summary>> = key)

\* group_processed_entries: the typed groups and the untyped entries
group_processed_entries(processed_entries_list) ==
    LET keys == group_keys(processed_entries_list)
    IN  [typed_combined_groups |->
            [i \in 1..Len(keys) |->
                [type |-> keys[i][1], summary |-> keys[i][2],
                 entries |-> sort_by_timestamp_iso(
                                 members(processed_entries_list, keys[i]))]],
         individual_untyped_entries |->
            sort_by_timestamp_iso(
                SelectSeq(processed_entries_list, LAMBDA e : ~typed_entry(e)))]

\* min(e["dt_local"] for e in entries if e["dt_local"]) if there is one, else None
earliest_dt_local(entries_list) ==
    LET times == {entries_list[i].dt_local[1] :
                    i \in {j \in 1..Len(entries_list) : HasTime(entries_list[j])}}
    IN  IF times = {} THEN <<>>
        ELSE <<CHOOSE t \in times : \A u \in times : t <= u>>

\* the sort key of a master item; -1 stands for datetime.min
sort_key(item) ==
    IF item.earliest_dt_local # <<>> THEN item.earliest_dt_local[1] ELSE -1

\* master_list.sort(key=...): one step of the stable sort
RECURSIVE InsertItem(_, _)
InsertItem(item, items) ==
    IF items = <<>> THEN <<item>>
    ELSE IF sort_key(item) < sort_key(items[Len(items)])
         THEN Append(InsertItem(item, SubSeq(items, 1, Len(items) - 1)),
                     items[Len(items)])
         ELSE Append(items, item)

\* mutant: the master list is left in the order it was built
master_list_unsorted(items) == items

RECURSIVE master_list_sort(_)
master_list_sort(items) ==
    IF items = <<>> THEN <<>>
    ELSE InsertItem(items[Len(items)],
                    master_list_sort(SubSeq(items, 1, Len(items) - 1)))

\* build_master_list_for_final_sorting
build_master_list_for_final_sorting(typed_combined_groups, dynamically_blocked_untyped_groups) ==
    LET typed_items ==
            [i \in 1..Len(typed_combined_groups) |->
                LET entries_list == typed_combined_groups[i].entries
                IN  [item_kind |-> "typed_group",
                     earliest_dt_local |-> earliest_dt_local(entries_list),
                     type |-> typed_combined_groups[i].type,
                     summary |-> typed_combined_groups[i].summary,
                     db_ids |-> [j \in 1..Len(entries_list) |-> entries_list[j].db_id]]]
        block_items ==
            [i \in 1..Len(dynamically_blocked_untyped_groups) |->
                [item_kind |-> "untyped_block",
                 earliest_dt_local |->
                     earliest_dt_local(dynamically_blocked_untyped_groups[i]),
                 entries_in_block |-> dynamically_blocked_untyped_groups[i]]]
    IN  master_list_sort(typed_items \o block_items)

\* seq_to_db_ids_map[current_sequential_id] = db_ids
Assigned(seq_to_db_ids_map, current_sequential_id, db_ids) ==
    [k \in DOMAIN seq_to_db_ids_map \cup {current_sequential_id} |->
        IF k = current_sequential_id THEN db_ids ELSE seq_to_db_ids_map[k]]

\* the inner loop over the entries of one untyped block, from entry j on
RECURSIVE AssignBlock(_, _, _, _)
AssignBlock(entries_in_block, j, seq_to_db_ids_map, current_sequential_id) ==
    IF j > Len(entries_in_block)
    THEN [seq_to_db_ids_map |-> seq_to_db_ids_map,
          current_sequential_id |-> current_sequential_id]
    ELSE AssignBlock(entries_in_block, j + 1,
                     Assigned(seq_to_db_ids_map, current_sequential_id,
                              <<entries_in_block[j].db_id>>),
                     current_sequential_id + 1)

\* mutant: a typed group does not advance the counter
RECURSIVE AssignFromTypedNotCounted(_, _, _, _)
AssignFromTypedNotCounted(sorted_master_list, i, seq_to_db_ids_map, current_sequential_id) ==
    IF i > Len(sorted_master_list) THEN seq_to_db_ids_map
    ELSE IF sorted_master_list[i].item_kind = "typed_group"
         THEN AssignFromTypedNotCounted(sorted_master_list, i + 1,
                         Assigned(seq_to_db_ids_map, current_sequential_id,
                                  sorted_master_list[i].db_ids),
                         current_sequential_id)
         ELSE LET block == AssignBlock(sorted_master_list[i].entries_in_block, 1,
                                       seq_to_db_ids_map, current_sequential_id)
              IN  AssignFromTypedNotCounted(sorted_master_list, i + 1,
                              block.seq_to_db_ids_map, block.current_sequential_id)

\* the loop over the master list, from item i on
RECURSIVE AssignFrom(_, _, _, _)
AssignFrom(sorted_master_list, i, seq_to_db_ids_map, current_sequential_id) ==
    IF i > Len(sorted_master_list) THEN seq_to_db_ids_map
    ELSE IF sorted_master_list[i].item_kind = "typed_group"
         THEN AssignFrom(sorted_master_list, i + 1,
                         Assigned(seq_to_db_ids_map, current_sequential_id,
                                  sorted_master_list[i].db_ids),
                         current_sequential_id + 1)
         ELSE LET block == AssignBlock(sorted_master_list[i].entries_in_block, 1,
                                       seq_to_db_ids_map, current_sequential_id)
              IN  AssignFrom(sorted_master_list, i + 1,
                             block.seq_to_db_ids_map, block.current_sequential_id)

\* assign_sequential_ids_and_prepare_prompt_data: seq_to_db_ids_map
assign_sequential_ids_and_prepare_prompt_data(sorted_master_list) ==
    AssignFrom(sorted_master_list, 1, <<>>, 1)

\* the insights worker has fetched the rows of the last hours
InitRemap ==
    /\ InitDb
    /\ feed = <<>>
    /\ pc = [p \in Procs |-> "off"]
    /\ client = [p \in Procs |-> FALSE]
    /\ \E n \in 0..MaxRows : \E stamps \in [1..n -> Stamps] :
       \E columns \in [1..n -> Columns] :
          batch = [pc |-> "fetched",
                   raw_db_entries |->
                       fetch_entries_from_db(
                           [i \in 1..n |-> RawRow(i, stamps[i], columns[i])]),
                   entries |-> <<>>, default_g |-> DEFAULT_G_SECONDS,
                   g_threshold |-> 0,
                   normalization_factor |-> TIME_PROXIMITY_NORMALIZATION_FACTOR,
                   typed_combined_groups |-> <<>>,
                   individual_untyped_entries |-> <<>>, blocks |-> <<>>,
                   sorted_master_list |-> <<>>, seq_to_db_ids_map |-> <<>>]

\* all_processed = process_db_entries(raw_entries, local_tz)
ProcessDbEntries ==
    /\ batch.pc = "fetched"
    /\ batch.raw_db_entries # <<>>
    /\ batch' = [batch EXCEPT !.pc = "processed",
                              !.entries = process_db_entries(batch.raw_db_entries)]
    /\ UNCHANGED <<clipboard, clipboard_groups, clock, pc, row, client, queue, running,
                   submits, crashes, feed, last>>

\* typed_groups, untyped_entries = group_processed_entries(all_processed)
GroupProcessedEntries ==
    /\ batch.pc = "estimated"
    /\ LET grouped == group_processed_entries(batch.entries)
       IN  batch' = [batch EXCEPT
                       !.pc = "grouped",
                       !.typed_combined_groups = grouped.typed_combined_groups,
                       !.individual_untyped_entries =
                           grouped.individual_untyped_entries]
    /\ UNCHANGED <<clipboard, clipboard_groups, clock, pc, row, client, queue, running,
                   submits, crashes, feed, last>>

\* dynamic_blocks = form_dynamic_untyped_blocks(untyped_entries, g, factor)
FormUntypedBlocks ==
    /\ batch.pc = "grouped"
    /\ batch' = [batch EXCEPT
                   !.pc = "blocks_formed",
                   !.blocks = form_dynamic_untyped_blocks(
                                  batch.individual_untyped_entries,
                                  batch.g_threshold, batch.normalization_factor)]
    /\ UNCHANGED <<clipboard, clipboard_groups, clock, pc, row, client, queue, running,
                   submits, crashes, feed, last>>

\* master_list = build_master_list_for_final_sorting(typed_groups, dynamic_blocks)
BuildMasterList ==
    /\ batch.pc = "blocks_formed"
    /\ batch' = [batch EXCEPT
                   !.pc = "master_built",
                   !.sorted_master_list =
                       build_master_list_for_final_sorting(
                           batch.typed_combined_groups, batch.blocks)]
    /\ UNCHANGED <<clipboard, clipboard_groups, clock, pc, row, client, queue, running,
                   submits, crashes, feed, last>>

\* seq_map, ... = assign_sequential_ids_and_prepare_prompt_data(master_list)
AssignSequentialIds ==
    /\ batch.pc = "master_built"
    /\ batch' = [batch EXCEPT
                   !.pc = "assigned",
                   !.seq_to_db_ids_map =
                       assign_sequential_ids_and_prepare_prompt_data(
                           batch.sorted_master_list)]
    /\ UNCHANGED <<clipboard, clipboard_groups, clock, pc, row, client, queue, running,
                   submits, crashes, feed, last>>

NextRemap ==
    \/ ProcessDbEntries
    \/ Estimate
    \/ GroupProcessedEntries
    \/ FormUntypedBlocks
    \/ BuildMasterList
    \/ AssignSequentialIds

SpecRemap == InitRemap /\ [][NextRemap]_vars

(* ------------- the similarity and the length filter alone ------------- *)
\* the characters of the short texts
Alphabet == {"a", "b", "A", " "}

\* the texts of at most n characters
RECURSIVE TextsUpTo(_)
TextsUpTo(n) ==
    IF n = 0 THEN {<<>>}
    ELSE LET shorter == TextsUpTo(n - 1)
         IN  shorter \cup {Append(t, c) : t \in shorter, c \in Alphabet}

\* the texts compared: all short ones and runs of one letter
TextPool == TextsUpTo(MaxText) \cup {A8, A9, A10, Rep("a", 11)}

\* the thresholds handed to find_similar_entries
MinSimilarities == {50, SIMILARITY_THRESHOLD}

\* find_similar_entries is called with content and a threshold, and the table
\* holds one other row
InitSimilarity ==
    /\ InitDb
    /\ feed = <<>>
    /\ pc = [p \in Procs |-> "off"]
    /\ client = [p \in Procs |-> FALSE]
    /\ \E content \in TextPool : \E other_content \in TextPool :
       \E min_similarity \in MinSimilarities :
          batch = [pc |-> "query", content |-> content,
                   other_content |-> other_content,
                   min_similarity |-> min_similarity,
                   min_length |-> 0, candidate |-> FALSE, score |-> 0,
                   returned |-> FALSE]

\* find_similar_entries on that row: the length filter of the query, then the
\* loop over the candidates
FindSimilar ==
    /\ batch.pc = "query"
    /\ LET min_length == MinLength(batch.content, batch.min_similarity)
           candidate == Len(batch.other_content) >= min_length
       IN  batch' = [batch EXCEPT
                       !.pc = "searched",
                       !.min_length = min_length,
                       !.candidate = candidate,
                       !.score = IF candidate /\ default_process(batch.other_content) # <<>>
                                 THEN calculate_similarity(batch.content,
                                                           batch.other_content)
                                 ELSE 0,
                       !.returned =
                           /\ candidate
                           /\ default_process(batch.other_content) # <<>>
                           /\ ScoreAtLeast(batch.content, batch.other_content,
                                           batch.min_similarity)]
    /\ UNCHANGED <<clipboard, clipboard_groups, clock, pc, row, client, queue, running,
                   submits, crashes, feed, last>>

NextSimilarity == FindSimilar

SpecSimilarity == InitSimilarity /\ [][NextSimilarity]_vars

(* ------------------- extract_json: texts and JSON --------------------- *)
\* a text is a sequence of characters; a fence marker (three backticks, with
\* json behind them when it opens a block) is one element
Quote == "\""
Backslash == "\\"
FenceOpen == "<fence>json"
FenceClose == "<fence>"

\* a JSON value: a string, a number, an object (items with keys) or an
\* array (items without)
Str(s) == [kind |-> "string", str |-> s, items |-> <<>>]
Num(digits) == [kind |-> "number", str |-> digits, items |-> <<>>]
Obj(items) == [kind |-> "object", str |-> <<>>, items |-> items]
Arr(items) == [kind |-> "array", str |-> <<>>, items |-> items]
Pair(key, value) == [key |-> key, value |-> value]

\* json.dumps: the escape of one character of a string
escaped(c) ==
    IF c = Quote THEN <<Backslash, Quote>>
    ELSE IF c = Backslash THEN <<Backslash, Backslash>>
    ELSE <<c>>

RECURSIVE encode_string(_)
encode_string(s) ==
    IF s = <<>> THEN <<>> ELSE escaped(Head(s)) \o encode_string(Tail(s))

quoted(s) == <<Quote>> \o encode_string(s) \o <<Quote>>

\* json.dumps(value), with the separators ", " and ": "
RECURSIVE json_dumps(_)
RECURSIVE dumps_members(_, _)
dumps_members(items, keyed) ==
    IF items = <<>> THEN <<>>
    ELSE (IF keyed THEN quoted(items[1].key) \o <<":", " ">> ELSE <<>>)
         \o json_dumps(items[1].value)
         \o (IF Len(items) > 1 THEN <<",", " ">> ELSE <<>>)
         \o dumps_members(Tail(items), keyed)

json_dumps(value) ==
    IF value.kind = "string" THEN quoted(value.str)
    ELSE IF value.kind = "number" THEN value.str
    ELSE IF value.kind = "object"
         THEN <<"{">> \o dumps_members(value.items, TRUE) \o <<"}">>
    ELSE <<"[">> \o dumps_members(value.items, FALSE) \o <<"]">>

\* the character at position i, "" past the end
At(text, i) == IF i \in 1..Len(text) THEN text[i] ELSE ""

\* blanks: the first position from i on that holds none
RECURSIVE SkipSpaces(_, _)
SkipSpaces(text, i) == IF At(text, i) = " " THEN SkipSpaces(text, i + 1) ELSE i

\* what a step of the decoder returns: the value and the position behind it
Parsed(value, next) == [ok |-> TRUE, value |-> value, next |-> next]
Unparsed_ == [ok |-> FALSE, value |-> Str(<<>>), next |-> 0]

\* json.loads: the characters of a string from position i on, up to its quote
RECURSIVE scanstring(_, _, _)
scanstring(text, i, chars) ==
    IF i > Len(text) THEN Unparsed_
    ELSE IF text[i] = Quote THEN Parsed(Str(chars), i + 1)
    ELSE IF text[i] = Backslash
         THEN IF At(text, i + 1) \in {Quote, Backslash}
              THEN scanstring(text, i + 2, Append(chars, text[i + 1]))
              ELSE Unparsed_
    ELSE scanstring(text, i + 1, Append(chars, text[i]))

\* the digits of a number from position i on
RECURSIVE DigitsEnd(_, _)
DigitsEnd(text, i) == IF At(text, i) = "1" THEN DigitsEnd(text, i + 1) ELSE i

\* dict[key] = value: a repeated key keeps its place and takes the new value
Put(items, key, value) ==
    IF \E n \in 1..Len(items) : items[n].key = key
    THEN [n \in 1..Len(items) |->
             IF items[n].key = key THEN Pair(key, value) ELSE items[n]]
    ELSE Append(items, Pair(key, value))

\* json.loads: one value at position i
RECURSIVE scan_once(_, _)
\* the items of an object from the key at position i on
RECURSIVE JSONObject(_, _, _)
\* the items of an array from the value at position i on
RECURSIVE JSONArray(_, _, _)
scan_once(text, i) ==
    IF At(text, i) = Quote THEN scanstring(text, i + 1, <<>>)
    ELSE IF At(text, i) = "{"
         THEN IF At(text, SkipSpaces(text, i + 1)) = "}"
              THEN Parsed(Obj(<<>>), SkipSpaces(text, i + 1) + 1)
              ELSE JSONObject(text, SkipSpaces(text, i + 1), <<>>)
    ELSE IF At(text, i) = "["
         THEN IF At(text, SkipSpaces(text, i + 1)) = "]"
              THEN Parsed(Arr(<<>>), SkipSpaces(text, i + 1) + 1)
              ELSE JSONArray(text, SkipSpaces(text, i + 1), <<>>)
    ELSE IF At(text, i) = "1"
         THEN Parsed(Num(SubSeq(text, i, DigitsEnd(text, i) - 1)), DigitsEnd(text, i))
    ELSE Unparsed_

JSONObject(text, i, items) ==
    IF At(text, i) # Quote THEN Unparsed_
    ELSE LET key == scanstring(text, i + 1, <<>>)
         IN  IF ~key.ok THEN Unparsed_
             ELSE LET colon == SkipSpaces(text, key.next)
                  IN  IF At(text, colon) # ":" THEN Unparsed_
                      ELSE LET value == scan_once(text, SkipSpaces(text, colon + 1))
                           IN  IF ~value.ok THEN Unparsed_
                               ELSE LET end == SkipSpaces(text, value.next)
                                        so_far == Put(items, key.value.str, value.value)
                                    IN  IF At(text, end) = "}"
                                        THEN Parsed(Obj(so_far), end + 1)
                                        ELSE IF At(text, end) = ","
                                             THEN JSONObject(text,
                                                      SkipSpaces(text, end + 1), so_far)
                                        ELSE Unparsed_

JSONArray(text, i, items) ==
    LET value == scan_once(text, i)
    IN  IF ~value.ok THEN Unparsed_
        ELSE LET end == SkipSpaces(text, value.next)
                 so_far == Append(items, Pair(<<>>, value.value))
             IN  IF At(text, end) = "]" THEN Parsed(Arr(so_far), end + 1)
                 ELSE IF At(text, end) = ","
                      THEN JSONArray(text, SkipSpaces(text, end + 1), so_far)
                 ELSE Unparsed_

\* json.loads(text): ok is FALSE for json.JSONDecodeError
json_loads(text) ==
    LET value == scan_once(text, SkipSpaces(text, 1))
    IN  IF value.ok /\ SkipSpaces(text, value.next) = Len(text) + 1
        THEN value ELSE Unparsed_

(* ------------------------- extract_json_block ------------------------- *)
\* what extract_json_block returns: None or a text
NoBlock == [found |-> FALSE, text |-> <<>>]
Block(text) == [found |-> TRUE, text |-> text]

\* a fence marker follows position i, after blanks or none
ClosesAt(text, i) == At(text, SkipSpaces(text, i)) \in {FenceClose, FenceOpen}

\* the group of fence_match at position q, then blanks and a fence marker:
\* the end of the shortest group, or 0
GroupEnd(text, q) ==
    LET closer == IF At(text, q) = "{" THEN "}"
                  ELSE IF At(text, q) = "[" THEN "]" ELSE ""
        ends == {e \in (q + 1)..Len(text) :
                    text[e] = closer /\ ClosesAt(text, e + 1)}
    IN  IF closer = "" \/ ends = {} THEN 0
        ELSE CHOOSE e \in ends : \A other \in ends : e <= other

\* fence_match: the first fenced object or array of the text
fence_match(text) ==
    LET starts == {p \in 1..Len(text) :
                      /\ text[p] = FenceOpen
                      /\ GroupEnd(text, SkipSpaces(text, p + 1)) > 0}
    IN  IF starts = {} THEN NoBlock
        ELSE LET p == CHOOSE p \in starts : \A other \in starts : p <= other
                 q == SkipSpaces(text, p + 1)
             IN  Block(SubSeq(text, q, GroupEnd(text, q)))

\* obj_match: the text from its first character on, if that is a brace after
\* blanks or none
obj_match(text) ==
    IF At(text, SkipSpaces(text, 1)) = "{"
    THEN Block(SubSeq(text, SkipSpaces(text, 1), Len(text)))
    ELSE NoBlock

\* the scan of raw_json_text from character i on: where the first object ends
\* (0 when it does not) and how many braces are open
RECURSIVE BraceScan(_, _, _, _, _)
BraceScan(raw_json_text, i, depth, in_string, escape_char) ==
    IF i > Len(raw_json_text) THEN [end_index |-> 0, depth |-> depth]
    ELSE LET char == raw_json_text[i]
         IN  IF escape_char
             THEN BraceScan(raw_json_text, i + 1, depth, in_string, FALSE)
             ELSE IF char = Backslash
             THEN BraceScan(raw_json_text, i + 1, depth, in_string, TRUE)
             ELSE IF char = Quote
             THEN BraceScan(raw_json_text, i + 1, depth, ~in_string, FALSE)
             ELSE IF ~in_string /\ char = "{"
             THEN BraceScan(raw_json_text, i + 1, depth + 1, in_string, FALSE)
             ELSE IF ~in_string /\ char = "}"
             THEN IF depth - 1 = 0 THEN [end_index |-> i, depth |-> 0]
                  ELSE BraceScan(raw_json_text, i + 1, depth - 1, in_string, FALSE)
             ELSE BraceScan(raw_json_text, i + 1, depth, in_string, FALSE)

\* balanced_text: the text with one "}" for every brace left open
balanced(raw_json_text, depth) == raw_json_text \o Rep("}", Max(depth, 0))

extract_json_block(text) ==
    IF fence_match(text).found THEN fence_match(text)
    ELSE IF ~obj_match(text).found THEN NoBlock
    ELSE LET raw_json_text == obj_match(text).text
             scan == BraceScan(raw_json_text, 1, 0, FALSE, FALSE)
         IN  IF scan.end_index # 0
             THEN Block(SubSeq(raw_json_text, 1, scan.end_index))
             ELSE Block(balanced(raw_json_text, scan.depth))

(* ----------------------------- extract_json --------------------------- *)
\* what extract_json does: return a text, or raise
Returned(value) == [raised |-> FALSE, value |-> value]
Raised == [raised |-> TRUE, value |-> <<>>]

\* the quoted tag, blanks, a colon and blanks at position p: the position
\* behind them, or 0
ValueStart(raw, p, tag) ==
    LET close == p + Len(tag) + 1
        colon == SkipSpaces(raw, close + 1)
    IN  IF /\ At(raw, p) = Quote
           /\ close <= Len(raw)
           /\ SubSeq(raw, p + 1, close - 1) = tag
           /\ raw[close] = Quote
           /\ At(raw, colon) = ":"
        THEN SkipSpaces(raw, colon + 1) ELSE 0

\* the group of m_full from position i on, then a quote: the position of the
\* closing quote the backtracking search finds first, or 0.  Each step of the
\* group takes a backslash and any character, or one character that is no quote
RECURSIVE FullEnd(_, _)
FullEnd(raw, i) ==
    IF i > Len(raw) THEN 0
    ELSE LET escape == IF raw[i] = Backslash /\ i + 1 <= Len(raw)
                       THEN FullEnd(raw, i + 2) ELSE 0
             plain == IF raw[i] # Quote THEN FullEnd(raw, i + 1) ELSE 0
         IN  IF escape > 0 THEN escape
             ELSE IF plain > 0 THEN plain
             ELSE IF raw[i] = Quote THEN i ELSE 0

\* the same group from position i on, then the end of the text
RECURSIVE TruncMatches(_, _)
TruncMatches(raw, i) ==
    IF i > Len(raw) THEN TRUE
    ELSE \/ raw[i] = Backslash /\ i + 1 <= Len(raw) /\ TruncMatches(raw, i + 2)
         \/ raw[i] # Quote /\ TruncMatches(raw, i + 1)

\* a run of word characters from position i on: the position behind it
RECURSIVE WordEnd(_, _)
WordEnd(raw, i) ==
    IF At(raw, i) \in {"k", "x", "1"} THEN WordEnd(raw, i + 1) ELSE i

\* the first position of a set of positions
First(positions) == CHOOSE p \in positions : \A other \in positions : p <= other

\* m_full: the tag, a colon and a complete string
m_full(raw, tag) ==
    LET starts == {p \in 1..Len(raw) :
                      /\ ValueStart(raw, p, tag) > 0
                      /\ At(raw, ValueStart(raw, p, tag)) = Quote
                      /\ FullEnd(raw, ValueStart(raw, p, tag) + 1) > 0}
    IN  IF starts = {} THEN NoBlock
        ELSE LET open == ValueStart(raw, First(starts), tag)
             IN  Block(SubSeq(raw, open + 1, FullEnd(raw, open + 1) - 1))

\* m_trunc: the tag, a colon and a string that runs to the end of the text
m_trunc(raw, tag) ==
    LET starts == {p \in 1..Len(raw) :
                      /\ ValueStart(raw, p, tag) > 0
                      /\ At(raw, ValueStart(raw, p, tag)) = Quote
                      /\ TruncMatches(raw, ValueStart(raw, p, tag) + 1)}
    IN  IF starts = {} THEN NoBlock
        ELSE Block(SubSeq(raw, ValueStart(raw, First(starts), tag) + 1, Len(raw)))

\* m_nonstr: the tag, a colon and a run of word characters
m_nonstr(raw, tag) ==
    LET starts == {p \in 1..Len(raw) :
                      /\ ValueStart(raw, p, tag) > 0
                      /\ WordEnd(raw, ValueStart(raw, p, tag))
                             > ValueStart(raw, p, tag)}
    IN  IF starts = {} THEN NoBlock
        ELSE LET open == ValueStart(raw, First(starts), tag)
             IN  Block(SubSeq(raw, open, WordEnd(raw, open) - 1))

\* the regex fallbacks of extract_json on raw
regex_fallback(raw, tag) ==
    IF m_full(raw, tag).found THEN Returned(m_full(raw, tag).text)
    ELSE IF m_trunc(raw, tag).found THEN Returned(m_trunc(raw, tag).text)
    ELSE IF m_nonstr(raw, tag).found THEN Returned(m_nonstr(raw, tag).text)
    ELSE Returned(<<>>)

\* data.get(tag, ""), for data a dict
get(data, tag) ==
    IF \E n \in 1..Len(data.items) : data.items[n].key = tag
    THEN data.items[CHOOSE n \in 1..Len(data.items) : data.items[n].key = tag].value
    ELSE Str(<<>>)

extract_json(text, tag) ==
    LET json_block == extract_json_block(text)
        data == json_loads(json_block.text)
    IN  IF json_block.found /\ data.ok
        THEN IF data.value.kind # "object" THEN Raised
             ELSE LET val == get(data.value, tag)
                  IN  Returned(IF val.kind = "string" THEN val.str ELSE json_dumps(val))
        ELSE regex_fallback(IF json_block.found THEN json_block.text ELSE text, tag)

(* ------------------- extract_json on model responses ------------------ *)
\* the characters of the string values
ValueChars == {"x", Quote, Backslash, "{", "}"}

\* the string values of at most n characters
RECURSIVE ValuesUpTo(_)
ValuesUpTo(n) ==
    IF n = 0 THEN {<<>>}
    ELSE LET shorter == ValuesUpTo(n - 1)
         IN  shorter \cup {Append(v, c) : v \in shorter, c \in ValueChars}

\* string values that quote a fenced block, as a summary of copied markdown may
FencedValues == {<<FenceOpen, "{", "}", FenceClose>>,
                 <<FenceOpen, "[", "1", "]", FenceClose>>}

StringValues == ValuesUpTo(MaxValue) \cup FencedValues

\* the field names
K == <<"k">>
X == <<"x">>
Tags == {K, X}

\* the objects the model is asked for, as it may answer
Objects ==
    {Obj(<<Pair(K, Str(v))>>) : v \in StringValues}
    \cup {Obj(<<Pair(X, Str(v)), Pair(K, Str(w))>>) :
             v \in ValuesUpTo(1), w \in StringValues}
    \cup {Obj(<<Pair(X, Obj(<<Pair(K, Str(v))>>)), Pair(K, Str(w))>>) :
             v \in ValuesUpTo(1), w \in ValuesUpTo(1)}
    \cup {Obj(<<Pair(X, Str(v))>>) : v \in ValuesUpTo(1)}
    \cup {Obj(<<Pair(K, Num(<<"1">>))>>),
          Obj(<<Pair(K, Obj(<<Pair(X, Str(X))>>))>>),
          Obj(<<Pair(K, Arr(<<Pair(<<>>, Num(<<"1">>)), Pair(<<>>, Str(X))>>))>>)}

\* how the response presents the object
Forms == {"bare", "fenced", "fenced_array", "after_prose", "prose"}

\* the response text; a blank stands for any whitespace
Rendered(obj, form) ==
    IF form = "bare" THEN json_dumps(obj)
    ELSE IF form = "fenced"
         THEN <<FenceOpen, " ">> \o json_dumps(obj) \o <<" ", FenceClose>>
    ELSE IF form = "fenced_array"
         THEN <<FenceOpen, " ", "[">> \o json_dumps(obj) \o <<"]", " ", FenceClose>>
    ELSE IF form = "after_prose" THEN <<"x", " ">> \o json_dumps(obj)
    ELSE <<"x", " ", "x">>

\* the value the top-level field tag of obj had, as extract_json is to return it
HasField(obj, tag) == \E n \in 1..Len(obj.items) : obj.items[n].key = tag
FieldText(obj, tag) ==
    IF get(obj, tag).kind = "string" THEN get(obj, tag).str
    ELSE json_dumps(get(obj, tag))

\* where the string value of the top-level field tag opens in json_dumps(obj):
\* the position of its opening quote
RECURSIVE OpenQuote(_, _, _)
OpenQuote(obj, tag, n) ==
    LET before == IF n = 1 THEN <<"{">>
                  ELSE <<"{">> \o dumps_members(SubSeq(obj.items, 1, n - 1), TRUE)
                           \o <<",", " ">>
    IN  IF obj.items[n].key = tag
        THEN Len(before) + Len(quoted(tag)) + 3
        ELSE OpenQuote(obj, tag, n + 1)

\* the position of the closing quote of that value
CloseQuote(obj, tag) ==
    OpenQuote(obj, tag, 1) + Len(encode_string(get(obj, tag).str)) + 1

\* the model has answered
InitExtract ==
    /\ InitDb
    /\ feed = <<>>
    /\ pc = [p \in Procs |-> "off"]
    /\ client = [p \in Procs |-> FALSE]
    /\ \E obj \in Objects : \E form \in Forms :
          batch = [pc |-> "response", obj |-> obj, form |-> form,
                   text |-> Rendered(obj, form), cut |-> -1, tag |-> <<>>,
                   json_block |-> NoBlock, result |-> Returned(<<>>)]

\* the output limit cuts the response after n characters
Truncate ==
    /\ batch.pc = "response"
    /\ batch.cut = -1
    /\ \E n \in 0..(Len(batch.text) - 1) :
          batch' = [batch EXCEPT !.text = SubSeq(batch.text, 1, n), !.cut = n]
    /\ UNCHANGED <<clipboard, clipboard_groups, clock, pc, row, client, queue, running,
                   submits, crashes, feed, last>>

\* extract_json(raw, tag)
ExtractJson ==
    /\ batch.pc = "response"
    /\ \E tag \in Tags :
          batch' = [batch EXCEPT !.pc = "extracted", !.tag = tag,
                                 !.json_block = extract_json_block(batch.text),
                                 !.result = extract_json(batch.text, tag)]
    /\ UNCHANGED <<clipboard, clipboard_groups, clock, pc, row, client, queue, running,
                   submits, crashes, feed, last>>

NextExtract == Truncate \/ ExtractJson

SpecExtract == InitExtract /\ [][NextExtract]_vars

(* ------------------------------ shutdown ------------------------------ *)
\* except KeyboardInterrupt: the signal ends the loop wherever it is; exit(0)
\* raises SystemExit and the finally block starts executor.shutdown(wait=True)
KeyboardInterrupt(p) ==
    /\ pc[p] \in {"start", "poll", "decide"}
    /\ pc' = [pc EXCEPT ![p] = "draining"]
    /\ row' = [row EXCEPT ![p] = NoRow]
    /\ last' = Op("KeyboardInterrupt", p, 0, Len(queue[p]))
    /\ UNCHANGED <<batch, feed, clipboard, clipboard_groups, clock, client, queue, running,
                   submits, crashes>>

\* executor.shutdown(wait=True) returns once the pool's thread has run every
\* submitted call; conn.close() and the process ends
Exit(p) ==
    /\ pc[p] = "draining"
    /\ queue[p] = <<>>
    /\ running[p] = 0
    /\ pc' = [pc EXCEPT ![p] = "off"]
    /\ last' = Op("Exit", p, 0, 0)
    /\ UNCHANGED <<batch, feed, clipboard, clipboard_groups, clock, row, client, queue, running,
                   submits, crashes>>

(* ------------------------------- Next --------------------------------- *)
Next ==
    \/ \E text \in Texts \cup {Long, CutB, CutC, CutD} : log_to_db(text)
    \/ Elapse
    \/ \E p \in Procs : Recover(p)
    \/ \E p \in Procs : Poll(p)
    \/ \E p \in Procs : Inherit(p)
    \/ \E p \in Procs : Attach(p)
    \/ \E p \in Procs : Dispatch(p)
    \/ \E p \in Procs : WorkerStart(p)
    \/ \E p \in Procs : WorkerFinish(p)
    \/ \E p \in Procs : Crash(p)

Spec == Init /\ [][Next]_vars

\* the polling loop keeps running, the pool's thread takes every submitted
\* call and every call returns
Fairness ==
    \A p \in Procs :
        /\ WF_vars(Recover(p))
        /\ WF_vars(Poll(p))
        /\ WF_vars(Inherit(p))
        /\ WF_vars(Attach(p))
        /\ WF_vars(Dispatch(p))
        /\ WF_vars(WorkerStart(p))
        /\ WF_vars(WorkerFinish(p))

FairSpec == InitLive /\ [][Next]_vars /\ Fairness

SpecGroup == InitGroup /\ [][Next]_vars

\* two worker processes on one database, neither killed, every row inside
\* the data window
NextConc ==
    \/ \E text \in Texts \cup {Long, CutB, CutC, CutD} : log_to_db(text)
    \/ \E p \in Procs : Recover(p)
    \/ \E p \in Procs : Poll(p)
    \/ \E p \in Procs : Inherit(p)
    \/ \E p \in Procs : Attach(p)
    \/ \E p \in Procs : Dispatch(p)
    \/ \E p \in Procs : WorkerStart(p)
    \/ \E p \in Procs : WorkerFinish(p)

SpecConc == InitConc /\ [][NextConc]_vars

\* one worker process that is told to stop
NextStop ==
    \/ Next
    \/ \E p \in Procs : KeyboardInterrupt(p)
    \/ \E p \in Procs : Exit(p)

SpecStop == InitLive /\ [][NextStop]_vars

(* ======================= the claims, C1 .. C10 ======================== *)
Attached == last.op = "Attach"

\* C1 (as claimed): in every reachable state, an entry's group_id X names an
\* entry whose own group_id is null or X itself; no chain e -> X -> Y, Y # X.
OneHopInvariant ==
    \A e \in Ids :
        LET x == clipboard[e].group_id
        IN  x # NoGroup => clipboard[x].group_id \in {NoGroup, x}

\* C2: after B attaches by similarity to match A, B.group_id is A.group_id
\* when A has one and A.id otherwise; it is not A.id when A belongs to the
\* group of another entry R.
FlattenOnAttach ==
    Attached =>
        LET b == clipboard[last.id]
            a == clipboard[last.other]
        IN  /\ b.group_id = IF a.group_id # NoGroup THEN a.group_id ELSE last.other
            /\ a.group_id \notin {NoGroup, last.other} => b.group_id # last.other

\* C2 witness: an attach to a match that already belongs to another group
AttachedToGroupMember ==
    /\ Attached
    /\ clipboard[last.other].group_id \notin {NoGroup, last.other}

\* C3 (as claimed): of two passes that fetched the same unset entry only one
\* claims it; the other finds it no longer unset and does not submit it.
ClaimIdempotence ==
    [][\A p \in Procs : Dispatch(p) => clipboard[row[p].id].summary = NULL]_vars

\* C4: the startup recovery leaves no entry pending; every entry that was
\* pending is unset, and selectable when it is longer than the trigger length
\* and inside the data window.
RecoveryResetsPending ==
    [][\A p \in Procs : Recover(p) =>
          \A e \in Ids :
              /\ clipboard'[e].summary # PENDING
              /\ clipboard[e].summary = PENDING =>
                    /\ clipboard'[e].summary = NULL
                    /\ (Len(clipboard[e].content) > SUMMARY_TRIGGER_LEN
                            /\ InWindow(clipboard, e))
                          => e \in {id \in Ids : Selectable(clipboard', id)}]_vars

\* C4 witness: a recovery has just reset a pending entry that can be fetched
RecoveredPending ==
    /\ last.op = "Recover"
    /\ last.other > 0
    /\ \E e \in Ids : submits[e] > 0 /\ Selectable(clipboard, e)

\* C5 (as claimed): when the callback returns, its entry is not pending, and
\* after a service error or an empty completion it is the failed sentinel.
CallbackLeavesNoPending ==
    last.op = "WorkerFinish" =>
        /\ clipboard[last.id].summary # PENDING
        /\ last.completion \in {"error", "empty"} =>
              /\ clipboard[last.id].summary = FAIL
              /\ clipboard[last.id].type = FAIL

\* C6 (as claimed): an entry that is pending with a group_id does not stay
\* pending forever while the poll loop runs and the calls return.
SweepLiveness ==
    \A e \in 1..MaxEntries :
        [](e \in Ids /\ Summarizing(clipboard, e)
              => <>(e \in Ids /\ clipboard[e].summary # PENDING))

\* the states of a summary the spec names, as the stored text encodes them
Failed(summary) == summary = FAIL
Complete(summary) == summary \notin {NULL, PENDING} /\ ~Failed(summary)

\* C7 (as claimed): the sweep changes an entry only when it is pending with a
\* group whose root has a complete summary, and then to the root's (summary,
\* type); with the root unset, pending or failed the entry is left as it is.
SweepCopiesCompleteRoot ==
    [][\A p \in Procs : Poll(p) =>
          \A e \in Ids :
              LET g == clipboard[e].group_id
              IN  /\ clipboard'[e] # clipboard[e] =>
                        /\ Summarizing(clipboard, e)
                        /\ Complete(clipboard[g].summary)
                        /\ clipboard'[e] =
                              [clipboard[e] EXCEPT !.summary = clipboard[g].summary,
                                                   !.type = clipboard[g].type]
                  /\ (Summarizing(clipboard, e) /\ ~Complete(clipboard[g].summary))
                        => clipboard'[e] = clipboard[e]]_vars

\* C8 (as claimed): when the fetched entry has a group_id and another member
\* of the group has a complete summary, the entry gets that member's
\* (summary, type), keeps its group_id, no GroupEdge is added and nothing is
\* submitted; when instead another member is pending the entry becomes
\* pending and nothing is submitted.
GroupInheritance ==
    [][\A p \in Procs :
          ((Inherit(p) \/ Attach(p) \/ Dispatch(p)) /\ row[p].group_id # NoGroup) =>
              LET e == row[p].id
                  g == row[p].group_id
                  done == {m \in Ids : /\ Member(clipboard, m, e, g)
                                       /\ Complete(clipboard[m].summary)}
                  busy == {m \in Ids : /\ Member(clipboard, m, e, g)
                                       /\ clipboard[m].summary = PENDING}
              IN  /\ done # {} =>
                        /\ \E m \in done :
                              /\ clipboard'[e].summary = clipboard[m].summary
                              /\ clipboard'[e].type = clipboard[m].type
                        /\ clipboard'[e].group_id = clipboard[e].group_id
                        /\ clipboard_groups' = clipboard_groups
                        /\ queue' = queue
                  /\ (done = {} /\ busy # {}) =>
                        /\ clipboard'[e].summary = PENDING
                        /\ queue' = queue]_vars

\* C9 (as claimed): a similarity attach records the GroupEdge (this.id,
\* match.id, score, root_group_id) with match.id # this.id, a score at or
\* above the threshold and the group_id written to the attaching entry, and
\* the attaching entry receives the match's (summary, type).
AttachRecordsEdge ==
    Attached =>
        /\ last.other # last.id
        /\ \E edge \in clipboard_groups :
              /\ edge.from_id = last.id
              /\ edge.to_id = last.other
              /\ edge.similarity >= 10 * SIMILARITY_THRESHOLD
              /\ edge.group_id = clipboard[last.id].group_id
        /\ clipboard[last.id].summary = clipboard[last.other].summary
        /\ clipboard[last.id].type = clipboard[last.other].type

\* C10 (as claimed): the match of a similarity attach was captured before the
\* attaching entry.
MatchIsPrior ==
    Attached =>
        /\ last.other < last.id
        /\ clipboard[last.other].timestamp < clipboard[last.id].timestamp

(* ======================= the claims, C11 .. C20 ======================= *)
\* C11 (as claimed): a failed entry is never retried: no poll cycle selects
\* an entry whose summary is failed, no dispatch claims and submits one, and
\* the sweep and the startup recovery leave a failed summary as it is.
FailedNeverRetried ==
    [][\A p \in Procs :
          /\ Dispatch(p) => ~Failed(clipboard[row[p].id].summary)
          /\ (Poll(p) /\ row'[p].id # 0) =>
                /\ ~Failed(clipboard[row'[p].id].summary)
                /\ ~Failed(clipboard'[row'[p].id].summary)
          /\ (Poll(p) \/ Recover(p)) =>
                \A e \in Ids : Failed(clipboard[e].summary)
                                  => clipboard'[e] = clipboard[e]]_vars

\* C12 (as claimed): after the shutdown signal the loop claims no entry, the
\* pool starts no call (calls submitted before the signal and not yet started
\* included), and the process ends only when no call is in flight.
GracefulShutdown ==
    [][\A p \in Procs :
          /\ pc[p] = "draining" => ~Dispatch(p) /\ ~WorkerStart(p)
          /\ Exit(p) => running[p] = 0]_vars

EdgesAppendOnly ==
    [][/\ clipboard_groups \subseteq clipboard_groups'
       /\ \A e1, e2 \in clipboard_groups' :
             (e1.from_id = e2.from_id /\ e1.to_id = e2.to_id) => e1 = e2
       /\ \A p \in Procs : Attach(p) => pc'[p] = "poll"]_vars

\* C14 witness: an attach has just met its own earlier edge, stored with
\* another group_id than the one the attach now wrote to the entry
DuplicateEdgeIgnored ==
    /\ Attached
    /\ \E edge \in clipboard_groups :
          /\ edge.from_id = last.id
          /\ edge.to_id = last.other
          /\ edge.group_id # clipboard[last.id].group_id

\* C15: no step deletes an entry or changes an entry's id, timestamp or
\* content, and inheritance, attach and dispatch change no row but the one of
\* the picked entry (the matched entry of an attach keeps its summary, type
\* and group_id).
ResolverFrame ==
    [][/\ Len(clipboard') >= Len(clipboard)
       /\ \A e \in Ids :
             /\ clipboard'[e].timestamp = clipboard[e].timestamp
             /\ clipboard'[e].content = clipboard[e].content
       /\ \A p \in Procs : (Inherit(p) \/ Attach(p) \/ Dispatch(p)) =>
             \A e \in Ids \ {row[p].id} : clipboard'[e] = clipboard[e]]_vars

\* C15 witness: an entry has just attached to a match that has a summary and
\* a group of its own
AttachedToSummarized ==
    /\ Attached
    /\ clipboard[last.other].summary \notin {NULL, ""}
    /\ clipboard[last.other].group_id # NoGroup

\* C16 (as claimed): when a summarization attempt ends in failure (service
\* error, empty output, output whose fields cannot be extracted, extraction
\* raising included), the summary and type written are FAIL sentinels, and
\* the batch path does not take the entry for a typed entry.
FailureIsVisible ==
    (last.op = "WorkerFinish" /\ last.completion \in {"error", "empty", "fenced_array"})
        => /\ clean_summary(clipboard[last.id].summary) = NULL
           /\ clean_type(clipboard[last.id].type) = NULL
           /\ ~Typed(clipboard[last.id])

\* the insights worker has formed its blocks
Formed == batch.pc \in {"given", "blocked"}

RECURSIVE Flatten(_)
Flatten(blocks) == IF blocks = <<>> THEN <<>> ELSE Head(blocks) \o Flatten(Tail(blocks))

\* the positions of the input that are the first entry of a block
BlockHeads == {block[1].db_id : block \in {batch.blocks[b] : b \in 1..Len(batch.blocks)}}

\* both entries of the pair (i - 1, i) have a local time
BothTimed(i) == HasTime(batch.entries[i - 1]) /\ HasTime(batch.entries[i])

\* the gap of the pair (i - 1, i), in seconds
Gap(i) == batch.entries[i].dt_local[1] - batch.entries[i - 1].dt_local[1]

\* C17: the blocks are non-empty and their concatenation is the input, every
\* entry in one block and in input order; no input gives no block.
BlocksPartitionInput ==
    Formed =>
        /\ \A b \in 1..Len(batch.blocks) : batch.blocks[b] # <<>>
        /\ Flatten(batch.blocks) = batch.entries
        /\ batch.entries = <<>> => batch.blocks = <<>>

\* C17 witness: an input cut into several blocks, one of them with several
\* entries
SeveralBlocks ==
    /\ Formed
    /\ Len(batch.blocks) >= 2
    /\ \E b \in 1..Len(batch.blocks) : Len(batch.blocks[b]) >= 2

\* C18: with a positive threshold, the later entry of a consecutive pair that
\* has both times starts a block exactly when gap > 0 and gap >= factor *
\* threshold; times 0, 10, 20, 1000 with threshold 60 and factor 1.0 give the
\* blocks [0, 10, 20] and [1000].
BlockBoundaryRule ==
    (Formed /\ batch.g_threshold > 0) =>
        /\ \A i \in 2..Len(batch.entries) : BothTimed(i) =>
              (i \in BlockHeads <=>
                  /\ Gap(i) > 0
                  /\ 100 * Gap(i) >= batch.normalization_factor * batch.g_threshold)
        /\ (/\ batch.entries = Processed(<< <<0>>, <<10>>, <<20>>, <<1000>> >>)
            /\ batch.g_threshold = 600
            /\ batch.normalization_factor = 10)
              => batch.blocks = <<SubSeq(batch.entries, 1, 3), SubSeq(batch.entries, 4, 4)>>

\* C18 witness: the blocks of the spec's example have been formed
ExampleBlocks ==
    /\ Formed
    /\ batch.entries = Processed(<< <<0>>, <<10>>, <<20>>, <<1000>> >>)
    /\ batch.g_threshold = 600
    /\ batch.normalization_factor = 10
    /\ Len(batch.blocks) = 2

\* C19: when an entry of a consecutive pair has no local time, the later one
\* starts a block, unless the gap the former computes for the pair is not
\* positive, and then it joins the current block.
MissingTimeSplits ==
    Formed =>
        \A i \in 2..Len(batch.entries) : ~BothTimed(i) =>
            IF Positive(gap_seconds(batch.entries[i - 1], batch.entries[i]))
            THEN i \in BlockHeads
            ELSE i \notin BlockHeads

\* C19 witness: blocks formed from an input where an entry without a local
\* time follows one with a time and is followed by one with the same time
MissingTimeBetweenEqualTimes ==
    /\ Formed
    /\ \E i \in 2..(Len(batch.entries) - 1) :
          /\ ~HasTime(batch.entries[i])
          /\ HasTime(batch.entries[i - 1])
          /\ batch.entries[i + 1] = [batch.entries[i - 1] EXCEPT !.db_id = i + 1]

\* C20 (as claimed): the estimator returns the fallback when fewer than 2
\* positive consecutive gaps exist or the percentile is not positive, and the
\* 90th percentile of the positive gaps otherwise.
ThresholdFallback ==
    batch.pc = "estimated" =>
        LET gaps == gaps_in_seconds(batch.entries)
        IN  IF Len(gaps) < 2 \/ Percentile90(gaps) <= 0
            THEN batch.g_threshold = 10 * batch.default_g
            ELSE batch.g_threshold = Percentile90(gaps)

(* ======================= the claims, C21 .. C30 ======================= *)

\* C21: for entries whose consecutive gaps all equal the same positive number
\* of seconds, the estimator returns that number, whatever the order in which
\* the entries are given.
ConstantGapFixedPoint ==
    batch.pc = "estimated" => batch.g_threshold = 10 * batch.spacing

\* C21 witness: ten entries, given out of order, have been estimated
TenReorderedEstimated ==
    /\ batch.pc = "estimated"
    /\ Len(batch.entries) = 10
    /\ batch.swaps > 0
    /\ batch.entries[1].dt_local[1] > batch.entries[2].dt_local[1]

\* the storage ids a master item stands for, one tuple for each sequential id
ItemDbIds(item) ==
    IF item.item_kind = "typed_group" THEN {item.db_ids}
    ELSE {<<item.entries_in_block[j].db_id>> : j \in 1..Len(item.entries_in_block)}

\* the sequential ids given to a master item
ItemSeqIds(item) ==
    {k \in DOMAIN batch.seq_to_db_ids_map :
        batch.seq_to_db_ids_map[k] \in ItemDbIds(item)}

\* the number of untyped entries
UntypedCount == Len(batch.individual_untyped_entries)

\* C22: the sequential ids are exactly 1..N, N being the number of typed groups
\* plus the number of untyped entries, and of two items (typed groups or
\* blocks) the one whose earliest timestamp is earlier has the smaller ids.
SequentialIdsDenseAndOrdered ==
    batch.pc = "assigned" =>
        /\ DOMAIN batch.seq_to_db_ids_map =
               1..(Len(batch.typed_combined_groups) + UntypedCount)
        /\ \A i, j \in 1..Len(batch.sorted_master_list) :
              LET a == batch.sorted_master_list[i]
                  b == batch.sorted_master_list[j]
              IN  /\ ItemSeqIds(a) # {}
                  /\ (a.earliest_dt_local # <<>> /\ b.earliest_dt_local # <<>>
                      /\ a.earliest_dt_local[1] < b.earliest_dt_local[1])
                     => \A ka \in ItemSeqIds(a) : \A kb \in ItemSeqIds(b) : ka < kb

\* C22 witness: a typed group whose earliest entry is the newest row was built
\* first and is numbered after a block of two untyped entries
TypedGroupNumberedAfterBlock ==
    /\ batch.pc = "assigned"
    /\ Len(batch.sorted_master_list) = 2
    /\ batch.sorted_master_list[1].item_kind = "untyped_block"
    /\ Len(batch.sorted_master_list[1].entries_in_block) = 2
    /\ batch.sorted_master_list[2].item_kind = "typed_group"
    /\ batch.sorted_master_list[2].earliest_dt_local = <<10>>
    /\ batch.sorted_master_list[1].earliest_dt_local = <<0>>

\* the storage ids a sequential id stands for
DbIdsOf(k) ==
    {batch.seq_to_db_ids_map[k][n] : n \in 1..Len(batch.seq_to_db_ids_map[k])}

\* the sequential ids whose storage ids include this one
SeqIdsOf(db_id) == {k \in DOMAIN batch.seq_to_db_ids_map : db_id \in DbIdsOf(k)}

\* C23: every storage id of the input is among the storage ids of exactly one
\* sequential id; the sequential id of a typed entry stands for the storage
\* ids of all entries with the same (type, summary), and the sequential id of
\* an untyped entry for that entry alone.
ReverseMapPartitionsInput ==
    batch.pc = "assigned" =>
        \A i \in 1..Len(batch.entries) :
            LET e == batch.entries[i]
                same == {batch.entries[j].db_id :
                            j \in {n \in 1..Len(batch.entries) :
                                     /\ typed_entry(batch.entries[n])
                                     /\ batch.entries[n].type = e.type
                                     /\ batch.entries[n].summary = e.summary}}
            IN  /\ Cardinality(SeqIdsOf(e.db_id)) = 1
                /\ \A k \in SeqIdsOf(e.db_id) :
                      IF typed_entry(e) THEN DbIdsOf(k) = same
                      ELSE batch.seq_to_db_ids_map[k] = <<e.db_id>>

\* C23 witness: a typed group of two entries and one untyped entry have been
\* numbered
GroupOfTwoAndAnUntypedEntryMapped ==
    /\ batch.pc = "assigned"
    /\ Len(batch.typed_combined_groups) = 1
    /\ \E k \in DOMAIN batch.seq_to_db_ids_map : Len(batch.seq_to_db_ids_map[k]) = 2
    /\ UntypedCount = 1

\* the storage ids of the entries of a list
IdsIn(entries) == {entries[i].db_id : i \in 1..Len(entries)}

\* the storage ids in typed groups
TypedIds ==
    UNION {IdsIn(batch.typed_combined_groups[g].entries) :
              g \in 1..Len(batch.typed_combined_groups)}

\* how many places of the two outputs hold this storage id
Places(db_id) ==
    Cardinality({<<g, i>> \in (1..Len(batch.typed_combined_groups)) \X (1..MaxRows) :
                     /\ i <= Len(batch.typed_combined_groups[g].entries)
                     /\ batch.typed_combined_groups[g].entries[i].db_id = db_id})
    + Cardinality({i \in 1..Len(batch.individual_untyped_entries) :
                     batch.individual_untyped_entries[i].db_id = db_id})

\* the stored summary or type is null, the pending marker or a failure marker
SentinelRow(r) ==
    \/ r.summary \in {NULL, PENDING, FAIL, "FAIL-1"}
    \/ r.type \in {NULL, FAIL, "FAIL-1"}

\* C24: a row whose stored summary is null, pending or a failure marker, or
\* whose type is null or a failure marker, is in no typed group and is in the
\* untyped list; every fetched row is in exactly one place of the two outputs;
\* the entries of a typed group all carry the group's (type, summary), which
\* are the row's own columns.
SentinelsAreUntyped ==
    batch.pc = "grouped" =>
        /\ \A n \in 1..Len(batch.raw_db_entries) :
              LET r == batch.raw_db_entries[n]
              IN  /\ Places(r.id) = 1
                  /\ SentinelRow(r) =>
                        /\ r.id \notin TypedIds
                        /\ r.id \in IdsIn(batch.individual_untyped_entries)
        /\ \A g \in 1..Len(batch.typed_combined_groups) :
              LET group == batch.typed_combined_groups[g]
              IN  \A i \in 1..Len(group.entries) :
                     \E n \in 1..Len(batch.raw_db_entries) :
                        /\ batch.raw_db_entries[n].id = group.entries[i].db_id
                        /\ batch.raw_db_entries[n].type = group.type
                        /\ batch.raw_db_entries[n].summary = group.summary

\* C24 witness: a pending row and a row with a numbered failure marker are
\* untyped next to a typed group
SentinelRowsNextToTypedGroup ==
    /\ batch.pc = "grouped"
    /\ Len(batch.typed_combined_groups) = 1
    /\ \E n, m \in 1..Len(batch.raw_db_entries) :
          /\ batch.raw_db_entries[n].summary = PENDING
          /\ batch.raw_db_entries[m].summary = "FAIL-1"
          /\ {batch.raw_db_entries[n].id, batch.raw_db_entries[m].id}
                 \subseteq IdsIn(batch.individual_untyped_entries)

\* the text is not empty and is already lowercased and trimmed
Plain(text) == text # <<>> /\ default_process(text) = text

\* C25: the length filter never excludes a row that would qualify: if the
\* similarity of the content and the row reaches the threshold, the row's
\* length is at least the minimum length the filter computed.  Stated for
\* the plainest texts: not empty, already lowercased and trimmed.
LengthFilterSound ==
    (/\ batch.pc = "searched"
     /\ Plain(batch.content)
     /\ Plain(batch.other_content)
     /\ ScoreAtLeast(batch.content, batch.other_content, batch.min_similarity))
        => Len(batch.other_content) >= batch.min_length

\* C26: the similarity of two texts is the same in both directions, lies
\* between 0 and 100, and does not change when either text is replaced by its
\* lowercased, trimmed form.
SimilaritySymmetricBoundedNormalized ==
    batch.pc = "searched" =>
        LET a == batch.content
            b == batch.other_content
            matched == Matched(a, b)
            total == Total(a, b)
        IN  /\ Matched(b, a) = matched /\ Total(b, a) = total
            /\ calculate_similarity(b, a) = calculate_similarity(a, b)
            /\ calculate_similarity(a, b) \in 0..1000
            /\ 0 <= matched /\ matched <= total
            /\ Matched(default_process(a), b) = matched
            /\ Total(default_process(a), b) = total
            /\ Matched(a, default_process(b)) = matched
            /\ Total(a, default_process(b)) = total
            /\ calculate_similarity(default_process(a), default_process(b))
                   = calculate_similarity(a, b)

\* C26 witness: a text with a capital and blanks around it has been compared
\* with a different text, and they are partly alike
MixedCaseCompared ==
    /\ batch.pc = "searched"
    /\ batch.content = <<" ", "A", "b">>
    /\ batch.other_content = <<"a", " ">>
    /\ batch.score \notin {0, 1000}

\* C27: for a well-formed object with the field, extract_json of the
\* serialized object returns the field's value (serialized again when it is
\* not a string), whatever characters the string values contain.
ExtractRoundTrip ==
    (/\ batch.pc = "extracted"
     /\ batch.form = "bare"
     /\ batch.cut = -1
     /\ HasField(batch.obj, batch.tag))
        => batch.result = Returned(FieldText(batch.obj, batch.tag))

\* the first text is the beginning of the second
IsPrefix(prefix, text) ==
    Len(prefix) <= Len(text) /\ SubSeq(text, 1, Len(prefix)) = prefix

\* the response was cut inside the string value of the field asked for, with
\* at least min_chars characters of the value kept
CutInsideValue(min_chars) ==
    /\ batch.pc = "extracted"
    /\ batch.form = "bare"
    /\ HasField(batch.obj, batch.tag)
    /\ get(batch.obj, batch.tag).kind = "string"
    /\ batch.cut >= OpenQuote(batch.obj, batch.tag, 1) + min_chars
    /\ batch.cut < CloseQuote(batch.obj, batch.tag)

\* C28: for a well-formed object cut off inside the string value of the field,
\* past the opening quote, extract_json returns without raising a non-empty
\* prefix of the original value, with no character that was not in the value.
TruncatedValueIsPrefix ==
    CutInsideValue(1) =>
        /\ ~batch.result.raised
        /\ batch.result.value # <<>>
        /\ IsPrefix(batch.result.value, get(batch.obj, batch.tag).str)

\* C29: for an object cut off at its tail, inside a string value, the text
\* extract_json_block returns has the string and all braces closed: it parses
\* as a JSON object.
RepairedBlockParses ==
    CutInsideValue(0) =>
        /\ batch.json_block.found
        /\ json_loads(batch.json_block.text).ok
        /\ json_loads(batch.json_block.text).value.kind = "object"

\* C30: extract_json never raises, whatever the response text and the field
\* name.
ExtractNeverRaises == batch.pc = "extracted" => ~batch.result.raised

(* ========================== truncate_middle =========================== *)
\* longest clip text tried
MaxClip == 8

\* clip texts are made of a letter, the space and the newline
ClipAlphabet == {"a", " ", "\n"}

RECURSIVE ClipsUpTo(_)
ClipsUpTo(n) ==
    IF n = 0 THEN {<<>>}
    ELSE LET shorter == ClipsUpTo(n - 1)
         IN  shorter \cup {Append(t, c) : t \in shorter, c \in ClipAlphabet}

\* the max_len arguments tried: (max_len - len(placeholder)) // 2 is -1, 0, 1, 2
MaxLens == {2, 3, 6, 7}

\* the boundary_threshold arguments tried; 100 is the default
BoundaryThresholds == {1, 100}

\* stands for the default placeholder, a newline, a notice of 31 characters
\* and a newline: the notice is shortened to one character, which keeps the
\* length odd
placeholder == <<"\n", "~", "\n">>

Min(a, b) == IF a <= b THEN a ELSE b

\* a slice index of Python on a text of n characters: a negative index counts
\* from the end, and every index is clamped to 0 .. n
Bound(n, i) == IF i < 0 THEN Max(0, n + i) ELSE Min(i, n)

\* text[i:j]; the character at Python index k is text[k + 1]
slice(text, i, j) ==
    LET lo == Bound(Len(text), i)
        hi == Bound(Len(text), j)
    IN  IF lo < hi THEN SubSeq(text, lo + 1, hi) ELSE <<>>

\* text.find(ch, start): the lowest index at or after start, or -1
find(text, ch, start) ==
    LET hits == {k \in Bound(Len(text), start)..(Len(text) - 1) : text[k + 1] = ch}
    IN  IF hits = {} THEN -1 ELSE CHOOSE k \in hits : \A other \in hits : k <= other

\* text.rfind(ch, start, end): the highest index in start .. end - 1, or -1
rfind(text, ch, start, end) ==
    LET hits == {k \in Bound(Len(text), start)..(Bound(Len(text), end) - 1) :
                    text[k + 1] = ch}
    IN  IF hits = {} THEN -1 ELSE CHOOSE k \in hits : \A other \in hits : k >= other

endswith(text, ch) == text # <<>> /\ text[Len(text)] = ch
startswith(text, ch) == text # <<>> /\ text[1] = ch

\* step 1: the head, extended to the end of its line or cut back to a space
extended_head(text, half, boundary_threshold) ==
    LET head == slice(text, 0, half)
        nxt == find(text, "\n", half)
        sp == rfind(head, " ", 0, Len(head))
    IN  IF endswith(head, "\n") THEN head
        ELSE IF nxt # -1 /\ nxt - half <= boundary_threshold
             THEN slice(text, 0, nxt + 1)
        ELSE IF sp # -1 THEN slice(head, 0, sp + 1)
        ELSE head

\* step 2: the tail, extended to the start of its line or cut to a space
extended_tail(text, half, boundary_threshold) ==
    LET tail == slice(text, -half, Len(text))
        start == Len(text) - half
        prev == rfind(text, "\n", 0, start)
        sp == find(text, " ", start)
    IN  IF startswith(tail, "\n") THEN tail
        ELSE IF prev # -1 /\ start - prev <= boundary_threshold
             THEN slice(text, prev + 1, Len(text))
        ELSE IF sp # -1 /\ sp - start <= boundary_threshold
             THEN slice(text, sp + 1, Len(text))
        ELSE tail

truncate_middle(text, max_len, boundary_threshold) ==
    IF Len(text) <= max_len THEN text
    ELSE LET half == (max_len - Len(placeholder)) \div 2
         IN  extended_head(text, half, boundary_threshold)
                \o placeholder \o extended_tail(text, half, boundary_threshold)

InitTruncate ==
    /\ InitDb
    /\ feed = <<>>
    /\ pc = [p \in Procs |-> "off"]
    /\ client = [p \in Procs |-> FALSE]
    /\ \E text \in ClipsUpTo(MaxClip) : \E max_len \in MaxLens :
       \E boundary_threshold \in BoundaryThresholds :
          batch = [pc |-> "clip", text |-> text, max_len |-> max_len,
                   boundary_threshold |-> boundary_threshold, result |-> <<>>]

\* truncate_middle(content, max_len, boundary_threshold=...)
TruncateMiddle ==
    /\ batch.pc = "clip"
    /\ batch' = [batch EXCEPT
                   !.pc = "truncated",
                   !.result = truncate_middle(batch.text, batch.max_len,
                                              batch.boundary_threshold)]
    /\ UNCHANGED <<clipboard, clipboard_groups, clock, pc, row, client, queue, running,
                   submits, crashes, feed, last>>

NextTruncate == TruncateMiddle

SpecTruncate == InitTruncate /\ [][NextTruncate]_vars

(* ======================= the claims, C31 .. C39 ======================= *)
\* a summary that tells the reader something: complete and not the empty text
RealSummary(summary) == Complete(summary) /\ summary # ""
\* C31 (as claimed): while the poll loop runs and the calls return, every
\* entry that is unset, longer than the trigger length and inside the data
\* window eventually has a complete summary with non-empty text or a failed
\* one (or has left the data window before it was picked).
SummarizationLiveness ==
    \A e \in 1..MaxEntriesLive :
        [](e \in Ids /\ Selectable(clipboard, e)
              => <>(/\ e \in Ids
                    /\ \/ RealSummary(clipboard[e].summary)
                       \/ Failed(clipboard[e].summary)
                       \/ ~InWindow(clipboard, e)))
\* C32 (as claimed): every stored summary is unset, pending, failed or a
\* non-empty text, and no resolver step (inheritance, similarity attach,
\* dispatch) stores the empty string as a summary or as a type.
NoPlaceholderSummaries ==
    /\ \A e \in Ids : clipboard[e].summary # ""
    /\ last.op \in {"Inherit", "Attach", "Dispatch"} =>
          /\ clipboard[last.id].summary # ""
          /\ clipboard[last.id].type # ""
\* the entries some entry names as its group: the group roots
Roots == {clipboard[e].group_id : e \in Ids} \ {NoGroup}
\* C33 (as claimed): no entry's group_id is its own id, and every group root
\* has a null group_id.
NoSelfReference ==
    /\ \A e \in Ids : clipboard[e].group_id # e
    /\ \A root \in Roots : clipboard[root].group_id = NoGroup
\* C34 (as claimed): once the root of a group has a complete summary, every
\* entry of the group that has a complete summary carries the root's
\* (summary, type); complete is taken at its strictest, a non-empty text.
OneCanonicalSummary ==
    \A e \in Ids :
        LET root == clipboard[e].group_id
        IN  (/\ root \in Ids
             /\ RealSummary(clipboard[root].summary)
             /\ RealSummary(clipboard[e].summary))
              => /\ clipboard[e].summary = clipboard[root].summary
                 /\ clipboard[e].type = clipboard[root].type
\* C35 (as claimed): once an entry's summary is complete, no later step
\* (resolver step, sweep, worker completion, the completion of a call
\* dispatched for that entry before the sweep resolved it included) changes
\* its summary or its type.
CompleteSummaryStable ==
    [][\A e \in Ids :
          RealSummary(clipboard[e].summary) =>
              /\ clipboard'[e].summary = clipboard[e].summary
              /\ clipboard'[e].type = clipboard[e].type]_vars
\* C36: with a single resolver process, an entry is submitted only when it is
\* unset and is pending when the submit happens; from then on nothing but
\* the recovery of a later run makes it unset again, whatever the worker
\* completions in between, so that no later cycle of the same run selects it
\* and it is submitted at most once per run.
SubmittedOncePerRun ==
    /\ [][\A p \in Procs :
             /\ Dispatch(p) =>
                   /\ clipboard[row[p].id].summary = NULL
                   /\ clipboard'[row[p].id].summary = PENDING
             /\ (Poll(p) /\ row'[p].id # 0) => submits[row'[p].id] <= crashes]_vars
    /\ [][(\E p \in Procs : Recover(p))
             \/ \A e \in Ids : clipboard[e].summary # NULL
                                  => clipboard'[e].summary # NULL]_vars
    /\ [](\A e \in Ids : submits[e] <= crashes + 1)
\* C36 witness: a poll cycle of the first run has found nothing to pick
\* although an entry it submitted earlier, still long enough and inside the
\* window, has come back failed
PolledAfterSubmissions ==
    /\ last.op = "Poll"
    /\ last.id = 0
    /\ crashes = 0
    /\ \E e \in Ids :
          /\ submits[e] = 1
          /\ Failed(clipboard[e].summary)
          /\ Len(clipboard[e].content) > SUMMARY_TRIGGER_LEN
          /\ InWindow(clipboard, e)
\* C37 (as claimed): an entry's summary becomes failed only at the return of
\* a call dispatched for that entry; no entry that was never sent to the
\* service carries a failed summary copied from a match.
FailureNotContagious ==
    /\ [][\A e \in Ids :
             (~Failed(clipboard[e].summary) /\ Failed(clipboard'[e].summary))
                => \E p \in Procs : WorkerFinish(p) /\ running[p] = e]_vars
    /\ [](\A e \in Ids : Failed(clipboard[e].summary) => submits[e] > 0)
\* C38: an untyped entry without a local time is alone in its block: it is
\* not appended to the block of the entry before it, and the entry after it
\* does not join its block.
TimelessEntryAlone ==
    Formed =>
        \A b \in 1..Len(batch.blocks) :
            (\E k \in 1..Len(batch.blocks[b]) : ~HasTime(batch.blocks[b][k]))
                => Len(batch.blocks[b]) = 1
\* C38 witness: blocks formed, under a threshold that keeps equal times
\* together, from an input where an entry without a local time stands
\* between two entries of the same time, and is a block of its own
TimelessBlockBetweenEqualTimes ==
    /\ Formed
    /\ batch.g_threshold = 600
    /\ \E i \in 2..(Len(batch.entries) - 1) :
          /\ ~HasTime(batch.entries[i])
          /\ HasTime(batch.entries[i - 1])
          /\ batch.entries[i + 1].dt_local = batch.entries[i - 1].dt_local
          /\ \E b \in 1..Len(batch.blocks) : batch.blocks[b] = <<batch.entries[i]>>
\* C39 (as claimed): truncate_middle returns a text of at most max_len
\* characters unchanged, and for a longer text a result that is never
\* shorter than max_len, wherever the newlines and the spaces are.
TruncateLengthContract ==
    batch.pc = "truncated" =>
        IF Len(batch.text) <= batch.max_len
        THEN batch.result = batch.text
        ELSE Len(batch.result) >= batch.max_len
====
